---- MODULE Spec2Model ----
(***************************************************************************)
(* Hybrid retrieval fusion of TR0N72/Agentic-AI-Project:                   *)
(*   src/ai/services/hybrid_retriever_service.py                           *)
(*     _min_max_normalize, HybridRetriever.__init__, HybridRetriever.search *)
(*   src/cache/redis_cache.py                                              *)
(*     make_cache_key, cache_get_json, cache_set_json, _get_ttl_seconds    *)
(*                                                                         *)
(* Numbers.  Python floats are modelled as exact rationals <<n, d>> in     *)
(* lowest terms with d > 0; raw backend scores are integers.  Rounding of  *)
(* IEEE-754 arithmetic, NaN and infinities are outside the model.          *)
(* math.isclose is modelled with its default tolerances (rel_tol = 1e-09,  *)
(* abs_tol = 0.0), so two distinct raw scores can be "close".              *)
(*                                                                         *)
(* Python values.  A hit is a dict; it is modelled as a record of its four *)
(* fields plus `keys`, the set of keys the dict holds (r.get(k, default)   *)
(* reads the default when k is not in `keys`).  An id or a document is a   *)
(* Python value [t |-> type, s |-> str() of the value].                    *)
(*                                                                         *)
(* Cache.  Spec and SpecDoc cover the configuration in which                *)
(* get_redis_client() returns None (REDIS_URL and REDIS_HOST unset):       *)
(* cache_get_json returns None and cache_set_json returns without storing, *)
(* so lines 33-38 and 101-105 of search neither read nor write anything.   *)
(* SpecCache covers every configuration, with src/cache/redis_cache.py.    *)
(***************************************************************************)
EXTENDS Integers, Sequences, FiniteSets, TLC

VARIABLES
    pc,              \* position of the search coroutine
    alpha,           \* self.alpha, a rational
    top_k,           \* argument top_k of the running call
    bm25_results,    \* list returned by bm25_service.search
    vector_results,  \* list returned by vector_service.search
    results,         \* local `results` after the sort: <<key, out>> pairs
    ranked,          \* the returned list
    npc,             \* position of a direct call of _min_max_normalize
    scores,          \* its argument
    normalized,      \* its return value
    error,           \* the exception search raised to its caller, or "none"
    query,           \* argument query of the running call
    filter_metadata, \* argument filter_metadata of the running call
    env,             \* os.environ: REDIS_CACHE_ENABLED, REDIS_URL, TTL
    cache,           \* what Redis holds: a set of entries
    cache_key,       \* local cache_key of the running call
    returned,        \* the value search returned to its caller
    bm25_calls,      \* arguments of the calls of bm25_service.search
    vector_calls,    \* arguments of the calls of vector_service.search
    redis_ops,       \* commands the running call has sent to Redis
    llm_config,      \* LLMService: providers, default_provider,
                     \*   fallback_order, max_retries
    llm_call,        \* locals of the running _execute_with_fallback
    tasks,           \* the search coroutines running on one event loop
    loop,            \* the task that holds the event loop's thread, 0: none
    handler,         \* the caller of the fuser that is serving a request
    response         \* what that caller gave back

vars == <<pc, alpha, top_k, bm25_results, vector_results, results, ranked,
          npc, scores, normalized, error, query, filter_metadata, env, cache,
          cache_key, returned, bm25_calls, vector_calls, redis_ops,
          llm_config, llm_call, tasks, loop, handler, response>>

searchVars == <<pc, alpha, top_k, bm25_results, vector_results, results, ranked,
                error>>
normVars == <<npc, scores, normalized>>
cacheVars == <<query, filter_metadata, env, cache, cache_key, returned,
               bm25_calls, vector_calls, redis_ops>>
llmVars == <<llm_config, llm_call>>
concVars == <<tasks, loop>>
callerVars == <<handler, response>>
outerVars == <<llmVars, concVars, callerVars>>

----------------------------------------------------------------------------
(* Bounds of the model *)

MaxHits == 3      \* hits returned by the two backends together
MaxTopK == 2      \* largest top_k a caller passes
NormLen == 3      \* longest list passed to _min_max_normalize directly
MaxRaw == 2       \* raw scores range over 0..MaxRaw (and the close pair)

(* rel_tol of math.isclose is 1e-09: 1 / RelTolInv *)
RelTolInv == 1000000000

----------------------------------------------------------------------------
(* Integer and sequence helpers *)

Abs(x) == IF x < 0 THEN -x ELSE x

Max2(a, b) == IF a >= b THEN a ELSE b

RECURSIVE Gcd(_, _)
Gcd(a, b) == IF b = 0 THEN a ELSE Gcd(b, a % b)

SeqMin(s) == CHOOSE m \in {s[i] : i \in 1..Len(s)} : \A j \in 1..Len(s) : m <= s[j]

SeqMax(s) == CHOOSE m \in {s[i] : i \in 1..Len(s)} : \A j \in 1..Len(s) : m >= s[j]

(* All sequences over S of length at most n *)
SeqsUpTo(S, n) == UNION {[1..k -> S] : k \in 0..n}

----------------------------------------------------------------------------
(* Exact rationals standing for Python floats *)

Rat(n, d) ==
    LET g == Gcd(Abs(n), Abs(d))
        sg == IF d < 0 THEN -1 ELSE 1
    IN <<sg * (n \div g), sg * (d \div g)>>

Zero == <<0, 1>>
One == <<1, 1>>

RAdd(x, y) == Rat(x[1] * y[2] + y[1] * x[2], x[2] * y[2])
RSub(x, y) == Rat(x[1] * y[2] - y[1] * x[2], x[2] * y[2])
RMul(x, y) == Rat(x[1] * y[1], x[2] * y[2])
RLeq(x, y) == x[1] * y[2] <= y[1] * x[2]
RLt(x, y) == x[1] * y[2] < y[1] * x[2]
RMax(x, y) == IF RLt(x, y) THEN y ELSE x

----------------------------------------------------------------------------
(* _min_max_normalize, hybrid_retriever_service.py lines 7-13 *)

(* Faulty variant: exact equality instead of math.isclose *)
isclose_exact(a, b) == a = b

(* math.isclose(a, b): abs(a-b) <= max(rel_tol * max(abs(a), abs(b)), 0.0).
   For integers a, b this is abs(a-b) <= floor(max(abs(a), abs(b)) / 10^9). *)
isclose(a, b) ==
    a = b \/ Abs(a - b) <= Max2(Abs(a), Abs(b)) \div RelTolInv

(* Faulty variant: a constant list normalizes to 0.0 instead of 1.0 *)
_min_max_normalize_zero(ss) ==
    IF ss = <<>> THEN <<>>
    ELSE LET min_s == SeqMin(ss)
             max_s == SeqMax(ss)
         IN IF min_s = max_s
            THEN [i \in 1..Len(ss) |-> Zero]
            ELSE [i \in 1..Len(ss) |-> Rat(ss[i] - min_s, max_s - min_s)]

_min_max_normalize(ss) ==
    IF ss = <<>> THEN <<>>
    ELSE LET min_s == SeqMin(ss)
             max_s == SeqMax(ss)
         IN IF isclose(min_s, max_s)
            THEN [i \in 1..Len(ss) |-> One]
            ELSE [i \in 1..Len(ss) |-> Rat(ss[i] - min_s, max_s - min_s)]

----------------------------------------------------------------------------
(* A direct call of _min_max_normalize on a list of raw scores *)

(* Raw scores: a small range, and two distinct scores within rel_tol of each
   other (1e9 and 1e9 + 1 differ by a relative 1e-9). *)
RawScores == 0..MaxRaw \cup {RelTolInv, RelTolInv + 1}

----------------------------------------------------------------------------
(* src/cache/redis_cache.py and the values search hands to it *)

(* filter_metadata: None, or a dict written as the set of its items *)
FilterNone == [t |-> "none", items |-> {}]
FilterDict(items) == [t |-> "dict", items |-> items]

(* filter_metadata or {}, hybrid_retriever_service.py line 35 *)
filter_or_empty(f) == IF f.t = "none" \/ f.items = {} THEN FilterDict({}) ELSE f

(* what search hands back: nothing yet, a list of result dicts, or a str (the
   text str(l) of a list l, identified by l) *)
Unset == [kind |-> "unset", items |-> <<>>]
ListValue(l) == [kind |-> "list", items |-> l]
StrValue(l) == [kind |-> "str", items |-> l]

(* a metadata item whose value json.dumps cannot encode (a datetime, a set,
   bytes) *)
NotJson == "ts=<datetime>"

(* json.dumps(value) raises TypeError, redis_cache.py line 78 *)
json_dumps_raises(l) == \E i \in 1..Len(l) : NotJson \in l[i].metadata

(* json.dumps(v) of a value it can encode: the JSON text, written as the
   value it denotes; a list becomes an array, a str a string *)
json_dumps(v) ==
    [json |-> IF v.kind = "list" THEN "array" ELSE "string", text |-> v.items]

(* json.loads(raw), redis_cache.py line 71 *)
json_loads(raw) ==
    [kind |-> IF raw.json = "array" THEN "list" ELSE "str", items |-> raw.text]

(* cache_set_json lines 77-81: the payload for the list l; on TypeError the
   fallback encodes str(l), a JSON string *)
cache_payload(l) ==
    IF json_dumps_raises(l)
    THEN json_dumps(StrValue(l))
    ELSE json_dumps(ListValue(l))

(* the default of os.getenv("REDIS_CACHE_TTL_SECONDS", "600") and of the
   ValueError branch *)
DefaultTtl == 600

(* int(s) for the texts of the model; int() raises ValueError on the rest *)
int_raises(s) == s \notin {"60", "600"}
int(s) == IF s = "60" THEN 60 ELSE 600

(* os.getenv(name, default) *)
getenv(e, name, default) == IF e[name] = "unset" THEN default ELSE e[name]

(* Faulty variant: the environment is ignored *)
_get_ttl_seconds_fixed(e) == DefaultTtl

(* _get_ttl_seconds, lines 12-16 *)
_get_ttl_seconds(e) ==
    LET s == getenv(e, "REDIS_CACHE_TTL_SECONDS", "600")
    IN IF int_raises(s) THEN DefaultTtl ELSE int(s)

(* get_redis_client returns a client, lines 19-37: REDIS_URL or REDIS_HOST
   is set and not empty *)
has_client(e) == e.REDIS_URL \notin {"unset", ""}

(* Faulty variant: the cache is used whatever REDIS_CACHE_ENABLED says *)
cache_enabled_always(e) == TRUE

(* os.getenv("REDIS_CACHE_ENABLED", "true").lower() in {"1", "true", "yes"},
   hybrid_retriever_service.py lines 34 and 101; the texts of the model are
   in lower case *)
cache_enabled(e) == getenv(e, "REDIS_CACHE_ENABLED", "true") \in {"1", "true", "yes"}

(* the item that holds, as a string, the str() text of the value of
   NotJson *)
StrOfNotJson == "ts=str(<datetime>)"

(* json.dumps(part, sort_keys=True, default=str) on one item of a dict,
   redis_cache.py line 44: a value that JSON cannot encode is written as the
   JSON string of its str() text, a JSON value is written as itself *)
json_default_str(item) == IF item = NotJson THEN StrOfNotJson ELSE item

(* make_cache_key("search:hybrid", {"q": query, "k": top_k, "a": self.alpha,
   "f": filter_metadata or {}}), line 35 and redis_cache.py lines 40-49: the
   prefix and the sha256 digest of the sorted JSON text of the dict, in which
   the items of the filter are in the order of their keys whatever their
   order in the dict was (a set here).  The digest is written as the text it
   was taken of: sha256 is taken to be free of collisions. *)
make_cache_key(q, k, a, f) ==
    [prefix |-> "search:hybrid", q |-> q, k |-> k, a |-> a,
     f |-> {json_default_str(item) : item \in filter_or_empty(f).items}]

(* cache_key before line 35 has run *)
NoKey == [prefix |-> "", q |-> "", k |-> 0, a |-> Zero, f |-> {}]

(* no LLMService call *)
NoLLMConfig ==
    [providers |-> {}, default_provider |-> "", fallback_order |-> <<>>,
     max_retries |-> 0]
NoLLMCall ==
    [pc |-> "idle", operation |-> "", provider |-> "", current_provider |-> "",
     retries |-> 0, failing |-> {}, invoked |-> <<>>, result |-> ""]

(* no response yet *)
NoResponse == [status |-> 0, documents |-> <<>>, answered |-> FALSE]

(* Nothing but one search runs: no LLM call, no concurrent task, no
   handler *)
NoOuter ==
    /\ llm_config = NoLLMConfig /\ llm_call = NoLLMCall
    /\ tasks = <<>> /\ loop = 0
    /\ handler = "none" /\ response = NoResponse

(* No request is running and no Redis is configured: the state of the
   variables that only a search through the cache uses *)
NoCache ==
    /\ query = "" /\ filter_metadata = FilterNone
    /\ env = [REDIS_CACHE_ENABLED |-> "unset", REDIS_URL |-> "unset",
              REDIS_CACHE_TTL_SECONDS |-> "unset"]
    /\ cache = {}
    /\ cache_key = NoKey
    /\ returned = Unset
    /\ bm25_calls = <<>> /\ vector_calls = <<>>
    /\ redis_ops = <<>>

NormInit ==
    /\ npc = "call"
    /\ scores \in SeqsUpTo(RawScores, NormLen)
    /\ normalized = <<>>
    /\ pc = "off" /\ alpha = Zero /\ top_k = 0
    /\ bm25_results = <<>> /\ vector_results = <<>>
    /\ results = <<>> /\ ranked = <<>>
    /\ error = "none"
    /\ NoCache
    /\ NoOuter

Normalize ==
    /\ npc = "call"
    /\ normalized' = _min_max_normalize(scores)
    /\ npc' = "ret"
    /\ UNCHANGED <<scores, searchVars, cacheVars>>
    /\ UNCHANGED outerVars

NormNext == Normalize

SpecNorm == NormInit /\ [][NormNext]_vars

----------------------------------------------------------------------------
(* Python values and dicts *)

PyNone == [t |-> "none", s |-> "None"]
PyStr(x) == [t |-> "str", s |-> x]
PyInt(x) == [t |-> "int", s |-> x]      \* x is the decimal text of the int

(* bool(v) *)
Truthy(v) ==
    CASE v.t = "none" -> FALSE
      [] v.t = "str" -> v.s # ""
      [] v.t = "int" -> v.s # "0"

(* str(v) *)
str(v) == v.s

(* str(hash(v)): deterministic within one process; distinct values are taken
   to hash to distinct numbers, and None hashes like no string. *)
hash_str(v) == "hash(" \o v.t \o ":" \o v.s \o ")"

(* r.get(k, default) *)
Get(r, k, default) == IF k \in r.keys THEN r[k] ELSE default

(* len(v) of a str value *)
PyLen(v) == Len(v.s)

(* A dict is a sequence of <<key, value>> pairs in insertion order.
   d[k] = v keeps the position of an existing key and appends a new one. *)
DictHas(d, k) == \E i \in 1..Len(d) : d[i][1] = k

DictGet(d, k) == d[CHOOSE i \in 1..Len(d) : d[i][1] = k][2]

DictSet(d, k, v) ==
    IF DictHas(d, k)
    THEN [i \in 1..Len(d) |-> IF d[i][1] = k THEN <<k, v>> ELSE d[i]]
    ELSE Append(d, <<k, v>>)

(* results[:k] *)
PyPrefix(sq, k) ==
    IF k >= 0
    THEN SubSeq(sq, 1, IF k < Len(sq) THEN k ELSE Len(sq))
    ELSE SubSeq(sq, 1, IF Len(sq) + k > 0 THEN Len(sq) + k ELSE 0)

----------------------------------------------------------------------------
(* HybridRetriever.search, hybrid_retriever_service.py lines 32-106 *)

(* Faulty variant: no fallback to the document, the key is str(id) even for
   a missing, None or empty id *)
make_key_id_only(r) == str(Get(r, "id", PyNone))

(* make_key, lines 49-52 *)
make_key(r) ==
    IF Truthy(Get(r, "id", PyNone))
    THEN str(r.id)
    ELSE hash_str(Get(r, "document", PyStr("")))

(* [r.get("score", 0.0) for r in rs], lines 45-46 *)
raw_scores(rs) == [i \in 1..Len(rs) |-> Get(rs[i], "score", 0)]

(* {make_key(r): (r, norm[i]) for i, r in enumerate(rs)}, lines 54-55:
   a repeated key keeps its first position and takes the last value. *)
RECURSIVE key_map(_, _, _)
key_map(rs, norm, n) ==
    IF n = 0 THEN <<>>
    ELSE DictSet(key_map(rs, norm, n - 1), make_key(rs[n]), <<rs[n], norm[n]>>)

(* Faulty variant: a lexical-only entry starts with semantic 1.0 instead of 0.0 *)
seed_entry_one(item, norm_score) ==
    [id |-> Get(item, "id", PyNone),
     document |-> Get(item, "document", PyNone),
     metadata |-> Get(item, "metadata", {}),
     bm25 |-> norm_score,
     semantic |-> One]

(* lines 57-65: seed `merged` from bm25_map *)
seed_entry(item, norm_score) ==
    [id |-> Get(item, "id", PyNone),
     document |-> Get(item, "document", PyNone),
     metadata |-> Get(item, "metadata", {}),
     bm25 |-> norm_score,
     semantic |-> Zero]

merged_seed(bm25_map) ==
    [i \in 1..Len(bm25_map) |->
        <<bm25_map[i][1], seed_entry(bm25_map[i][2][1], bm25_map[i][2][2])>>]

(* Faulty variant: a semantic document of equal length replaces the lexical
   one (>= for > in line 73) *)
fold_existing_geq(e, item, norm_score) ==
    LET doc == Get(item, "document", PyNone)
        old == IF Truthy(e.document) THEN e.document ELSE PyStr("")
    IN [e EXCEPT
          !.semantic = RMax(e.semantic, norm_score),
          !.metadata = IF Get(item, "metadata", {}) # {}
                       THEN Get(item, "metadata", {}) ELSE @,
          !.document = IF Truthy(doc) /\ PyLen(doc) >= PyLen(old)
                       THEN doc ELSE @]

(* Faulty variant: the semantic metadata replaces the lexical one even when
   it is empty (no truthiness test in line 71) *)
fold_existing_meta(e, item, norm_score) ==
    LET doc == Get(item, "document", PyNone)
        old == IF Truthy(e.document) THEN e.document ELSE PyStr("")
    IN [e EXCEPT
          !.semantic = RMax(e.semantic, norm_score),
          !.metadata = Get(item, "metadata", {}),
          !.document = IF Truthy(doc) /\ PyLen(doc) > PyLen(old)
                       THEN doc ELSE @]

(* lines 68-74: the key is already in merged *)
fold_existing(e, item, norm_score) ==
    LET doc == Get(item, "document", PyNone)
        old == IF Truthy(e.document) THEN e.document ELSE PyStr("")
    IN [e EXCEPT
          !.semantic = RMax(e.semantic, norm_score),
          !.metadata = IF Get(item, "metadata", {}) # {}
                       THEN Get(item, "metadata", {}) ELSE @,
          !.document = IF Truthy(doc) /\ PyLen(doc) > PyLen(old)
                       THEN doc ELSE @]

(* lines 75-82: the key is new *)
new_entry(item, norm_score) ==
    [id |-> Get(item, "id", PyNone),
     document |-> Get(item, "document", PyNone),
     metadata |-> Get(item, "metadata", {}),
     bm25 |-> Zero,
     semantic |-> norm_score]

(* Faulty variant: a key that is only in vector_map is not inserted *)
RECURSIVE merge_vector_known(_, _, _)
merge_vector_known(merged, vector_map, n) ==
    IF n = 0 THEN merged
    ELSE LET m == merge_vector_known(merged, vector_map, n - 1)
             key == vector_map[n][1]
             item == vector_map[n][2][1]
             norm_score == vector_map[n][2][2]
         IN IF DictHas(m, key)
            THEN DictSet(m, key, fold_existing(DictGet(m, key), item, norm_score))
            ELSE m

(* lines 67-82: fold the first n entries of vector_map into merged *)
RECURSIVE merge_vector(_, _, _)
merge_vector(merged, vector_map, n) ==
    IF n = 0 THEN merged
    ELSE LET m == merge_vector(merged, vector_map, n - 1)
             key == vector_map[n][1]
             item == vector_map[n][2][1]
             norm_score == vector_map[n][2][2]
         IN IF DictHas(m, key)
            THEN DictSet(m, key, fold_existing(DictGet(m, key), item, norm_score))
            ELSE DictSet(m, key, new_entry(item, norm_score))

(* len(v) raises TypeError unless v is a str (documents are str, int or None) *)
len_raises(v) == v.t # "str"

(* line 73: the test of an existing key raises TypeError.  `and` evaluates
   len(item.get("document", "")) and len(merged[key]["document"] or "") only
   when item.get("document") is truthy. *)
fold_raises(e, item) ==
    LET doc == Get(item, "document", PyNone)
        old == IF Truthy(e.document) THEN e.document ELSE PyStr("")
    IN Truthy(doc)
       /\ (len_raises(Get(item, "document", PyStr(""))) \/ len_raises(old))

(* lines 67-82: folding the first n entries of vector_map raises *)
RECURSIVE merge_raises(_, _, _)
merge_raises(merged, vector_map, n) ==
    IF n = 0 THEN FALSE
    ELSE \/ merge_raises(merged, vector_map, n - 1)
         \/ LET m == merge_vector(merged, vector_map, n - 1)
                 key == vector_map[n][1]
             IN DictHas(m, key)
                /\ fold_raises(DictGet(m, key), vector_map[n][2][1])

(* lines 44-98 raise: only line 73 can, for the hits of the model *)
fuse_raises(bm25_rs, vector_rs) ==
    LET bm25_map == key_map(bm25_rs, _min_max_normalize(raw_scores(bm25_rs)),
                            Len(bm25_rs))
        vector_map == key_map(vector_rs,
                              _min_max_normalize(raw_scores(vector_rs)),
                              Len(vector_rs))
    IN merge_raises(merged_seed(bm25_map), vector_map, Len(vector_map))

(* Faulty variant: the two weights are swapped *)
final_score_swapped(a, item) ==
    RAdd(RMul(a, item.bm25), RMul(RSub(One, a), item.semantic))

(* Faulty variant: the bm25 score is not weighted by (1 - alpha) *)
final_score_unweighted(a, item) ==
    RAdd(RMul(a, item.semantic), item.bm25)

(* line 87 *)
final_score(a, item) ==
    RAdd(RMul(a, item.semantic), RMul(RSub(One, a), item.bm25))

(* lines 85-96: one <<key, out>> per merged entry, in dict order *)
scored(a, merged) ==
    [i \in 1..Len(merged) |->
        <<merged[i][1],
          [id |-> merged[i][2].id,
           document |-> merged[i][2].document,
           metadata |-> merged[i][2].metadata,
           bm25_score |-> merged[i][2].bm25,
           semantic_score |-> merged[i][2].semantic,
           score |-> final_score(a, merged[i][2])]>>]

(* Faulty variant: the sort is ascending (reverse=True forgotten) *)
RECURSIVE insert_asc(_, _)
insert_asc(sorted, x) ==
    IF sorted = <<>> THEN <<x>>
    ELSE IF RLeq(Head(sorted)[2].score, x[2].score)
         THEN <<Head(sorted)>> \o insert_asc(Tail(sorted), x)
         ELSE <<x>> \o sorted

(* Faulty variant: the sort is not stable, an entry goes before the entries
   with a score equal to its own *)
RECURSIVE insert_desc_unstable(_, _)
insert_desc_unstable(sorted, x) ==
    IF sorted = <<>> THEN <<x>>
    ELSE IF RLt(x[2].score, Head(sorted)[2].score)
         THEN <<Head(sorted)>> \o insert_desc_unstable(Tail(sorted), x)
         ELSE <<x>> \o sorted

(* line 98: list.sort(key=score, reverse=True) is stable: entries with equal
   scores keep their order.  Insert x after every entry whose score is >= its
   own. *)
RECURSIVE insert_desc(_, _)
insert_desc(sorted, x) ==
    IF sorted = <<>> THEN <<x>>
    ELSE IF RLeq(x[2].score, Head(sorted)[2].score)
         THEN <<Head(sorted)>> \o insert_desc(Tail(sorted), x)
         ELSE <<x>> \o sorted

RECURSIVE sort_desc(_, _)
sort_desc(rs, n) ==
    IF n = 0 THEN <<>> ELSE insert_desc(sort_desc(rs, n - 1), rs[n])

(* lines 44-96: `results` before the sort, for the two backend lists *)
unsorted_results(a, bm25_rs, vector_rs) ==
    LET bm25_scores == _min_max_normalize(raw_scores(bm25_rs))
        vector_scores == _min_max_normalize(raw_scores(vector_rs))
        bm25_map == key_map(bm25_rs, bm25_scores, Len(bm25_rs))
        vector_map == key_map(vector_rs, vector_scores, Len(vector_rs))
        merged == merge_vector(merged_seed(bm25_map), vector_map, Len(vector_map))
    IN scored(a, merged)

(* lines 44-98: the sorted `results` *)
fuse(a, bm25_rs, vector_rs) ==
    LET unsorted == unsorted_results(a, bm25_rs, vector_rs)
    IN sort_desc(unsorted, Len(unsorted))

(* Faulty variant: the slice keeps one entry more, results[:top_k + 1] *)
rank_one_more(rs, k) ==
    LET cut == PyPrefix(rs, k + 1) IN [i \in 1..Len(cut) |-> cut[i][2]]

(* line 99 *)
rank(rs, k) == LET cut == PyPrefix(rs, k) IN [i \in 1..Len(cut) |-> cut[i][2]]

----------------------------------------------------------------------------
(* Inputs of the search model *)

AllKeys == {"id", "document", "metadata", "score"}

Hit(i, d, m, sc) ==
    [keys |-> AllKeys, id |-> i, document |-> d, metadata |-> m, score |-> sc]

(* the same dict without its "id" key *)
NoIdHit(d, m, sc) ==
    [keys |-> AllKeys \ {"id"}, id |-> PyNone, document |-> d, metadata |-> m,
     score |-> sc]

SearchScores == {0, 1, 2}

(* Elasticsearch hits: string ids, or no id at all *)
LexHits ==
    UNION {{Hit(PyStr("a"), PyStr("cat"), {"src=es"}, sc),
            Hit(PyStr("1"), PyStr("dog"), {"src=es"}, sc),
            NoIdHit(PyStr("dog"), {}, sc)} : sc \in SearchScores}

(* Qdrant hits: string or int ids, or id None *)
SemHits ==
    UNION {{Hit(PyStr("a"), PyStr("cats!"), {"src=qd"}, sc),
            Hit(PyInt("1"), PyStr("dog"), {}, sc),
            Hit(PyNone, PyStr("dog"), {"src=qd"}, sc)} : sc \in SearchScores}

Alphas == {Zero, Rat(1, 2), One}

Init ==
    /\ pc = "idle"
    /\ alpha \in Alphas
    /\ top_k = 0
    /\ bm25_results = <<>> /\ vector_results = <<>>
    /\ results = <<>> /\ ranked = <<>>
    /\ npc = "off" /\ scores = <<>> /\ normalized = <<>>
    /\ error = "none"
    /\ NoCache
    /\ NoOuter

(* search is called with top_k = k; the cache lookup of lines 34-38 finds no
   client *)
SearchCall ==
    /\ pc = "idle"
    /\ \E k \in 1..MaxTopK : top_k' = k
    /\ pc' = "bm25"
    /\ UNCHANGED <<alpha, bm25_results, vector_results, results, ranked, error,
                   normVars, cacheVars>>
    /\ UNCHANGED outerVars

(* line 41: the synchronous lexical call returns a list *)
Bm25Search ==
    /\ pc = "bm25"
    /\ \E rs \in SeqsUpTo(LexHits, MaxHits) : bm25_results' = rs
    /\ pc' = "vector"
    /\ UNCHANGED <<alpha, top_k, vector_results, results, ranked, error,
                   normVars, cacheVars>>
    /\ UNCHANGED outerVars

(* line 42: the awaited vector call returns a list; lines 44-106 then run to
   the return without yielding again (cache_set_json finds no client) *)
VectorSearch ==
    /\ pc = "vector"
    /\ \E rs \in SeqsUpTo(SemHits, MaxHits - Len(bm25_results)) :
          /\ vector_results' = rs
          /\ results' = fuse(alpha, bm25_results, rs)
    /\ ranked' = rank(results', top_k)
    /\ pc' = "done"
    /\ UNCHANGED <<alpha, top_k, bm25_results, error, normVars, cacheVars>>
    /\ UNCHANGED outerVars

(* the caller has the list, or the exception; the call's locals are gone and
   the retriever can be called again *)
SearchReturn ==
    /\ pc \in {"done", "raised"}
    /\ pc' = "idle"
    /\ top_k' = 0
    /\ bm25_results' = <<>> /\ vector_results' = <<>>
    /\ results' = <<>> /\ ranked' = <<>>
    /\ error' = "none"
    /\ query' = "" /\ filter_metadata' = FilterNone
    /\ cache_key' = NoKey
    /\ returned' = Unset
    /\ bm25_calls' = <<>> /\ vector_calls' = <<>>
    /\ redis_ops' = <<>>
    /\ UNCHANGED <<alpha, env, cache, normVars>>
    /\ UNCHANGED outerVars

Next ==
    \/ SearchCall
    \/ Bm25Search
    \/ VectorSearch
    \/ SearchReturn

Spec == Init /\ [][Next]_vars

----------------------------------------------------------------------------
(* The same search over hits of every shape a backend can hand back: dicts
   without "id", "document" or "metadata", empty documents, a document that
   is not text.  Raw scores are written in tenths (100 is 10.0, 9 is 0.9):
   _min_max_normalize and math.isclose do not change when every score of a
   list is scaled by the same factor. *)

MaxLex == 2
MaxSem == 2

(* a hit dict with the keys ks only *)
HitWith(ks, i, d, m, sc) ==
    [keys |-> ks, id |-> i, document |-> d, metadata |-> m, score |-> sc]

DocLexHits ==
    {HitWith({"id", "document", "score"}, PyStr("a"), PyStr("cat"), {}, 100),
     HitWith({"id", "document", "score"}, PyStr("b"), PyStr("dog"), {}, 50),
     Hit(PyStr("b"), PyStr("dog"), {"src=es"}, 50),
     HitWith({"id", "score"}, PyStr("b"), PyNone, {}, 50),
     NoIdHit(PyStr("dog"), {"src=es"}, 50),
     HitWith({"score"}, PyNone, PyNone, {}, 50)}

DocSemHits ==
    {HitWith({"id", "document", "score"}, PyStr("b"), PyStr("doggo"), {}, 9),
     Hit(PyStr("b"), PyStr("cat"), {"src=qd"}, 9),
     Hit(PyStr("b"), PyStr(""), {}, 9),
     Hit(PyStr("b"), PyInt("7"), {}, 9),
     Hit(PyNone, PyStr("dog"), {"src=qd"}, 9),
     HitWith({"score"}, PyNone, PyNone, {}, 9)}

DocInit ==
    /\ pc = "idle"
    /\ alpha = Rat(1, 2)
    /\ top_k = 0
    /\ bm25_results = <<>> /\ vector_results = <<>>
    /\ results = <<>> /\ ranked = <<>>
    /\ npc = "off" /\ scores = <<>> /\ normalized = <<>>
    /\ error = "none"
    /\ NoCache
    /\ NoOuter

(* line 41 *)
DocBm25Search ==
    /\ pc = "bm25"
    /\ \E rs \in SeqsUpTo(DocLexHits, MaxLex) : bm25_results' = rs
    /\ pc' = "vector"
    /\ UNCHANGED <<alpha, top_k, vector_results, results, ranked, error,
                   normVars, cacheVars>>
    /\ UNCHANGED outerVars

(* line 42, then lines 44-106: the TypeError of line 73 leaves search, since
   nothing in search catches it; otherwise the list is returned *)
DocVectorSearch ==
    /\ pc = "vector"
    /\ \E rs \in SeqsUpTo(DocSemHits, MaxSem) :
          /\ vector_results' = rs
          /\ IF fuse_raises(bm25_results, rs)
             THEN /\ results' = <<>> /\ ranked' = <<>>
                  /\ error' = "TypeError"
                  /\ pc' = "raised"
             ELSE /\ results' = fuse(alpha, bm25_results, rs)
                  /\ ranked' = rank(results', top_k)
                  /\ error' = "none"
                  /\ pc' = "done"
    /\ UNCHANGED <<alpha, top_k, bm25_results, normVars, cacheVars>>
    /\ UNCHANGED outerVars

DocNext ==
    \/ SearchCall
    \/ DocBm25Search
    \/ DocVectorSearch
    \/ SearchReturn

SpecDoc == DocInit /\ [][DocNext]_vars

----------------------------------------------------------------------------
(* search with its result cache: lines 32-38 and 100-106 with
   src/cache/redis_cache.py.  The environment is fixed while the process
   runs; Redis holds what cache_set_json stored and has not expired. *)

Env(enabled, url, ttl) ==
    [REDIS_CACHE_ENABLED |-> enabled, REDIS_URL |-> url,
     REDIS_CACHE_TTL_SECONDS |-> ttl]

EnvConfigs ==
    {Env("unset", "unset", "unset"),
     Env("unset", "redis://cache", "unset"),
     Env("true", "redis://cache", "60"),
     Env("yes", "redis://cache", "abc"),
     Env("false", "redis://cache", "unset")}

(* the arguments of a call: query, top_k, filter_metadata *)
CallArgs ==
    {<<"", 1, FilterNone>>,
     <<"q", 2, FilterNone>>,
     <<"q", 2, FilterDict({})>>,
     <<"q", 2, FilterDict({"lang=en"})>>}

(* the lists the backends hand back to a call *)
CacheLexResponses ==
    {<<>>,
     <<HitWith({"id", "document", "score"}, PyStr("a"), PyStr("cat"), {}, 100)>>}

CacheSemResponses ==
    {<<>>,
     <<Hit(PyStr("b"), PyStr("dog"), {"src=qd"}, 9)>>,
     <<Hit(PyStr("b"), PyStr("doggo"), {NotJson}, 9)>>}

(* Faulty variant: the backends get filter_metadata or {} *)
backend_args_or_empty(q, k, f) ==
    [query |-> q, top_k |-> k, filter_metadata |-> filter_or_empty(f)]

(* the arguments of lines 41 and 42: (query, top_k=top_k,
   filter_metadata=filter_metadata) *)
backend_args(q, k, f) == [query |-> q, top_k |-> k, filter_metadata |-> f]

(* a backend call and how it ended *)
BackendCall(q, k, f, outcome) ==
    [args |-> backend_args(q, k, f), outcome |-> outcome]

(* a command sent to Redis and how it ended *)
NoPayload == [json |-> "none", text |-> <<>>]
RedisGet(key, outcome) ==
    [op |-> "GET", key |-> key, payload |-> NoPayload, ex |-> 0,
     outcome |-> outcome]
RedisSet(key, payload, ex, outcome) ==
    [op |-> "SET", key |-> key, payload |-> payload, ex |-> ex,
     outcome |-> outcome]

(* Faulty variant: the error of a backend is caught and the empty list is
   returned *)
BackendRaise_swallowed(err) ==
    /\ pc' = "done"
    /\ error' = "none"
    /\ returned' = ListValue(<<>>)

(* Faulty variant: the two backend calls are gathered, the failure of the
   lexical one does not keep the vector one from being made *)
BackendRaise_gathered(err) ==
    /\ pc' = IF err = "LexicalError" THEN "vector" ELSE "raised"
    /\ error' = err
    /\ returned' = returned

(* lines 41-42 are in no try block: the exception of a backend leaves search *)
BackendRaise(err) ==
    /\ pc' = "raised"
    /\ error' = err
    /\ returned' = returned

(* Faulty variant: the exception of cache_set_json leaves search *)
StoreError_propagates ==
    /\ pc' = "raised"
    /\ error' = "RedisError"
    /\ returned' = returned

(* lines 102-106: except Exception: pass, then return ranked *)
StoreError ==
    /\ pc' = "done"
    /\ error' = "none"
    /\ returned' = ListValue(ranked)

CacheInit ==
    /\ pc = "idle"
    /\ alpha = Rat(1, 2)
    /\ top_k = 0
    /\ bm25_results = <<>> /\ vector_results = <<>>
    /\ results = <<>> /\ ranked = <<>>
    /\ npc = "off" /\ scores = <<>> /\ normalized = <<>>
    /\ error = "none"
    /\ query = "" /\ filter_metadata = FilterNone
    /\ env \in EnvConfigs
    /\ cache = {}
    /\ cache_key = NoKey
    /\ returned = Unset
    /\ bm25_calls = <<>> /\ vector_calls = <<>>
    /\ redis_ops = <<>>
    /\ NoOuter

(* lines 32-35: the call and, with the cache enabled, its key *)
CachedSearchCall ==
    /\ pc = "idle"
    /\ \E args \in CallArgs :
          /\ query' = args[1] /\ top_k' = args[2] /\ filter_metadata' = args[3]
          /\ cache_key' = IF cache_enabled(env)
                          THEN make_cache_key(args[1], args[2], alpha, args[3])
                          ELSE NoKey
    /\ pc' = IF cache_enabled(env) THEN "lookup" ELSE "bm25"
    /\ UNCHANGED <<alpha, bm25_results, vector_results, results, ranked, error,
                   normVars, env, cache, returned, bm25_calls, vector_calls,
                   redis_ops>>
    /\ UNCHANGED outerVars

(* lines 36-38 with cache_get_json and cache_get_text: without a client the
   lookup gives None; with one, GET answers and a stored payload is decoded
   and returned *)
CacheLookup ==
    /\ pc = "lookup"
    /\ IF ~has_client(env)
       THEN /\ pc' = "bm25"
            /\ UNCHANGED <<redis_ops, returned>>
       ELSE /\ redis_ops' = Append(redis_ops, RedisGet(cache_key, "ok"))
            /\ LET stored == {e \in cache : e.key = cache_key}
               IN IF stored # {}
                  THEN /\ returned' = json_loads((CHOOSE e \in stored : TRUE).payload)
                       /\ pc' = "done"
                  ELSE /\ pc' = "bm25"
                       /\ UNCHANGED returned
    /\ UNCHANGED <<alpha, top_k, bm25_results, vector_results, results, ranked,
                   error, normVars, query, filter_metadata, env, cache,
                   cache_key, bm25_calls, vector_calls>>
    /\ UNCHANGED outerVars

(* line 36: client.get raises (Redis is down).  cache_get_json catches
   json.JSONDecodeError only and search has no try around the lookup. *)
CacheLookupRaises ==
    /\ pc = "lookup"
    /\ has_client(env)
    /\ redis_ops' = Append(redis_ops, RedisGet(cache_key, "raised"))
    /\ pc' = "raised"
    /\ error' = "RedisError"
    /\ UNCHANGED <<alpha, top_k, bm25_results, vector_results, results, ranked,
                   normVars, query, filter_metadata, env, cache, cache_key,
                   returned, bm25_calls, vector_calls>>
    /\ UNCHANGED outerVars

(* line 41 *)
CacheBm25Search ==
    /\ pc = "bm25"
    /\ \E rs \in CacheLexResponses : bm25_results' = rs
    /\ bm25_calls' = Append(bm25_calls,
                            BackendCall(query, top_k, filter_metadata, "returned"))
    /\ pc' = "vector"
    /\ UNCHANGED <<alpha, top_k, vector_results, results, ranked, error,
                   normVars, query, filter_metadata, env, cache, cache_key,
                   returned, vector_calls, redis_ops>>
    /\ UNCHANGED outerVars

(* line 41: the lexical backend raises *)
CacheBm25Raises ==
    /\ pc = "bm25"
    /\ bm25_calls' = Append(bm25_calls,
                            BackendCall(query, top_k, filter_metadata, "raised"))
    /\ BackendRaise("LexicalError")
    /\ UNCHANGED <<alpha, top_k, bm25_results, vector_results, results, ranked,
                   normVars, query, filter_metadata, env, cache, cache_key,
                   vector_calls, redis_ops>>
    /\ UNCHANGED outerVars

(* lines 42-101: the vector call returns, the lists are fused and cut; with
   the cache disabled line 106 returns the list *)
CacheVectorSearch ==
    /\ pc = "vector"
    /\ \E rs \in CacheSemResponses :
          /\ vector_results' = rs
          /\ results' = fuse(alpha, bm25_results, rs)
    /\ ranked' = rank(results', top_k)
    /\ vector_calls' = Append(vector_calls,
                              BackendCall(query, top_k, filter_metadata, "returned"))
    /\ IF cache_enabled(env)
       THEN pc' = "store" /\ UNCHANGED returned
       ELSE pc' = "done" /\ returned' = ListValue(ranked')
    /\ UNCHANGED <<alpha, top_k, bm25_results, error, normVars, query,
                   filter_metadata, env, cache, cache_key, bm25_calls,
                   redis_ops>>
    /\ UNCHANGED outerVars

(* line 42: the vector backend raises *)
CacheVectorRaises ==
    /\ pc = "vector"
    /\ vector_calls' = Append(vector_calls,
                              BackendCall(query, top_k, filter_metadata, "raised"))
    /\ BackendRaise("VectorError")
    /\ UNCHANGED <<alpha, top_k, bm25_results, vector_results, results, ranked,
                   normVars, query, filter_metadata, env, cache, cache_key,
                   bm25_calls, redis_ops>>
    /\ UNCHANGED outerVars

(* lines 102-106 with cache_set_json and cache_set_text: without a client
   nothing is sent; with one, SET key payload EX ttl replaces the entry of
   the key; the list is returned.  `origin` remembers the list the payload
   was made of. *)
CacheStore ==
    /\ pc = "store"
    /\ IF ~has_client(env)
       THEN UNCHANGED <<redis_ops, cache>>
       ELSE /\ redis_ops' = Append(redis_ops,
                                   RedisSet(cache_key, cache_payload(ranked),
                                            _get_ttl_seconds(env), "ok"))
            /\ cache' = {e \in cache : e.key # cache_key}
                           \cup {[key |-> cache_key,
                                  payload |-> cache_payload(ranked),
                                  ex |-> _get_ttl_seconds(env),
                                  origin |-> ranked]}
    /\ pc' = "done"
    /\ returned' = ListValue(ranked)
    /\ UNCHANGED <<alpha, top_k, bm25_results, vector_results, results, ranked,
                   error, normVars, query, filter_metadata, env, cache_key,
                   bm25_calls, vector_calls>>
    /\ UNCHANGED outerVars

(* line 103: client.set raises (Redis is down); nothing is stored *)
CacheStoreRaises ==
    /\ pc = "store"
    /\ has_client(env)
    /\ redis_ops' = Append(redis_ops,
                           RedisSet(cache_key, cache_payload(ranked),
                                    _get_ttl_seconds(env), "raised"))
    /\ StoreError
    /\ UNCHANGED <<alpha, top_k, bm25_results, vector_results, results, ranked,
                   normVars, query, filter_metadata, env, cache, cache_key,
                   bm25_calls, vector_calls>>
    /\ UNCHANGED outerVars

(* Redis drops an entry whose TTL has run out (SET ... EX, redis_cache.py
   line 63) *)
Expire ==
    /\ \E e \in cache : cache' = cache \ {e}
    /\ UNCHANGED <<searchVars, normVars, query, filter_metadata, env,
                   cache_key, returned, bm25_calls, vector_calls, redis_ops>>
    /\ UNCHANGED outerVars

CacheNext ==
    \/ CachedSearchCall
    \/ CacheLookup
    \/ CacheLookupRaises
    \/ CacheBm25Search
    \/ CacheBm25Raises
    \/ CacheVectorSearch
    \/ CacheVectorRaises
    \/ CacheStore
    \/ CacheStoreRaises
    \/ SearchReturn
    \/ Expire

SpecCache == CacheInit /\ [][CacheNext]_vars

----------------------------------------------------------------------------
(* The callers of the fuser: the handlers of
   src/ai/api/endpoints/vector_search.py and orchestration.py, and
   OrchestratorService.orchestrate_user_query of src/orchestrator_service.py.
   Each builds a HybridRetriever, awaits search and answers the request. *)

Endpoints ==
    {"search_hybrid", "search_questions", "search_materials",
     "orchestrate_user_answer"}

Handlers == Endpoints \cup {"orchestrate_user_query"}

(* the filter_metadata the handler hands to search *)
HandlerFilters(h) ==
    CASE h = "search_hybrid" -> {FilterNone, FilterDict({"lang=en"})}
      [] h = "search_questions" -> {FilterDict({"type=question"})}
      [] h = "search_materials" -> {FilterDict({"type=material"})}
      [] h = "orchestrate_user_answer" -> {FilterDict({"user_id=u1"})}
      [] h = "orchestrate_user_query" ->
            {FilterDict({"user_id=u1"}),
             FilterDict({"user_id=u1", "type=question"}),
             FilterDict({"user_id=u1", "type=material"})}

(* the handler goes on to the LLM with the retrieved documents *)
generates_answer(h) == h \in {"orchestrate_user_answer", "orchestrate_user_query"}

(* the answer of a handler whose search returned the value v *)
respond_ok(h, v) ==
    [status |-> 200, documents |-> v.items, answered |-> generates_answer(h)]

(* the answer of a handler whose search raised: the endpoints turn any
   exception into HTTPException(500) (vector_search.py lines 79-80, 103-104,
   127-128, orchestration.py lines 99-100); _retrieve_documents
   (orchestrator_service.py lines 166-168) logs it and returns [], and
   orchestrate_user_query goes on to _generate_answer with that list *)
respond_raised(h) ==
    IF h \in Endpoints
    THEN [status |-> 500, documents |-> <<>>, answered |-> FALSE]
    ELSE [status |-> 200, documents |-> <<>>, answered |-> TRUE]

CallersInit ==
    /\ pc = "idle"
    /\ alpha = Rat(3, 5)
    /\ top_k = 0
    /\ bm25_results = <<>> /\ vector_results = <<>>
    /\ results = <<>> /\ ranked = <<>>
    /\ npc = "off" /\ scores = <<>> /\ normalized = <<>>
    /\ error = "none"
    /\ query = "" /\ filter_metadata = FilterNone
    /\ env \in EnvConfigs
    /\ cache = {}
    /\ cache_key = NoKey
    /\ returned = Unset
    /\ bm25_calls = <<>> /\ vector_calls = <<>>
    /\ redis_ops = <<>>
    /\ NoOuter

(* a request arrives: the handler builds its filter and awaits search
   (lines 32-35 of search).  One request is followed from its arrival to its
   answer. *)
HandlerCall ==
    /\ pc = "idle"
    /\ \E h \in Handlers : \E f \in HandlerFilters(h) :
          /\ handler' = h
          /\ filter_metadata' = f
          /\ cache_key' = IF cache_enabled(env)
                          THEN make_cache_key("q", 2, alpha, f)
                          ELSE NoKey
    /\ query' = "q" /\ top_k' = 2
    /\ pc' = IF cache_enabled(env) THEN "lookup" ELSE "bm25"
    /\ UNCHANGED <<alpha, bm25_results, vector_results, results, ranked, error,
                   normVars, env, cache, returned, bm25_calls, vector_calls,
                   redis_ops, llmVars, concVars, response>>

(* search has returned or raised and the handler answers the request *)
HandlerRespond ==
    /\ pc \in {"done", "raised"}
    /\ response' = IF pc = "done"
                   THEN respond_ok(handler, returned)
                   ELSE respond_raised(handler)
    /\ pc' = "responded"
    /\ UNCHANGED <<alpha, top_k, bm25_results, vector_results, results, ranked,
                   error, normVars, cacheVars, llmVars, concVars, handler>>

CallersNext ==
    \/ HandlerCall
    \/ CacheLookup
    \/ CacheLookupRaises
    \/ CacheBm25Search
    \/ CacheBm25Raises
    \/ CacheVectorSearch
    \/ CacheVectorRaises
    \/ CacheStore
    \/ CacheStoreRaises
    \/ HandlerRespond
    \/ Expire

SpecCallers == CallersInit /\ [][CallersNext]_vars

----------------------------------------------------------------------------
(* src/ai/llm_engine/llm_service.py: LLMService and its fallback loop.
   The text cache of generate_text / chat_completion is off
   (REDIS_CACHE_ENABLED is false, as in the tests), so that each of them is
   one call of _execute_with_fallback. *)

MaxOrder == 3
MaxRetries == 3

(* class LLMProvider(Enum) *)
LLMProviders == {"groq", "llama"}

(* the None that _get_next_provider returns *)
NoProvider == "None"

(* list.index: the position of the first occurrence, 0 for ValueError *)
index(order, p) ==
    IF \E i \in 1..Len(order) : order[i] = p
    THEN CHOOSE i \in 1..Len(order) :
            order[i] = p /\ \A j \in 1..(i - 1) : order[j] # p
    ELSE 0

(* a variant of _get_next_provider that names the current provider again *)
_get_next_provider_same(order, current_provider) == current_provider

(* a variant of _get_next_provider that wraps around to the first entry *)
_get_next_provider_wrap(order, current_provider) ==
    LET current_idx == index(order, current_provider)
    IN  IF current_idx = 0 THEN NoProvider
        ELSE IF current_idx + 1 <= Len(order) THEN order[current_idx + 1]
        ELSE order[1]

_get_next_provider(order, current_provider) ==
    LET current_idx == index(order, current_provider)
    IN  IF current_idx = 0 THEN NoProvider
        ELSE IF current_idx + 1 <= Len(order) THEN order[current_idx + 1]
        ELSE NoProvider

(* the two exceptions of _execute_with_fallback and a provider's result *)
AllFailed(operation) == "All providers failed for " \o operation
MaxRetriesExceeded(n, operation) ==
    "Max retries (" \o ToString(n) \o ") exceeded for " \o operation
ResultOf(p) == "text from " \o p

Operations == {"Text generation", "Chat completion"}

(* fallback orders: LLM_PROVIDER_FALLBACK_ORDER split at the commas *)
FallbackOrders ==
    UNION {[1..n -> LLMProviders] : n \in 1..MaxOrder}

(* LLMService.__init__: Groq is always a provider, LLaMA when
   LLAMA_MODEL_PATH is set; MAX_RETRIES is any number from 0 on *)
LLMConfigs ==
    [providers : {{"groq"}, {"groq", "llama"}},
     default_provider : LLMProviders,
     fallback_order : FallbackOrders,
     max_retries : 0..MaxRetries]

LLMInit ==
    /\ pc = "idle"
    /\ alpha = Rat(1, 2)
    /\ top_k = 1
    /\ bm25_results = <<>>
    /\ vector_results = <<>>
    /\ results = <<>>
    /\ ranked = <<>>
    /\ error = "none"
    /\ npc = "start" /\ scores = <<>> /\ normalized = <<>>
    /\ NoCache
    /\ llm_config \in LLMConfigs
    /\ llm_call = NoLLMCall
    /\ tasks = <<>> /\ loop = 0
    /\ handler = "none" /\ response = NoResponse

(* generate_text / chat_completion enter _execute_with_fallback: the
   provider argument or the default one, retries = 0.  failing is the set of
   providers whose call raises during this call. *)
LLMCall ==
    /\ llm_call.pc = "idle"
    /\ \E operation \in Operations, provider \in LLMProviders,
          failing \in SUBSET LLMProviders, given \in BOOLEAN :
          LET start == IF given THEN provider
                       ELSE llm_config.default_provider
          IN  llm_call' = [pc |-> "loop", operation |-> operation,
                           provider |-> start, current_provider |-> start,
                           retries |-> 0, failing |-> failing,
                           invoked |-> <<>>, result |-> ""]
    /\ UNCHANGED <<searchVars, normVars, cacheVars, llm_config, concVars,
                   callerVars>>

(* one test of the while condition and, when it holds, one pass through the
   loop body: the lookup in self.providers (a KeyError is caught like a
   provider's failure), the provider's call, and the except branch *)
LLMAttempt ==
    /\ llm_call.pc = "loop"
    /\ LET c == llm_call
           p == c.current_provider
           known == p \in llm_config.providers
           calls == IF known THEN Append(c.invoked, p) ELSE c.invoked
           next_provider == _get_next_provider(llm_config.fallback_order, p)
       IN  llm_call' =
             IF ~(c.retries < llm_config.max_retries)
             THEN [c EXCEPT !.pc = "raised",
                            !.result = MaxRetriesExceeded(
                                llm_config.max_retries, c.operation)]
             ELSE IF known /\ p \notin c.failing
             THEN [c EXCEPT !.pc = "returned", !.invoked = calls,
                            !.result = ResultOf(p)]
             ELSE IF next_provider # NoProvider
             THEN [c EXCEPT !.current_provider = next_provider,
                            !.retries = c.retries + 1, !.invoked = calls]
             ELSE [c EXCEPT !.pc = "raised", !.invoked = calls,
                            !.result = AllFailed(c.operation)]
    /\ UNCHANGED <<searchVars, normVars, cacheVars, llm_config, concVars,
                   callerVars>>

(* the caller has the result or the exception; the service is ready for
   the next call *)
LLMReturn ==
    /\ llm_call.pc \in {"returned", "raised"}
    /\ llm_call' = NoLLMCall
    /\ UNCHANGED <<searchVars, normVars, cacheVars, llm_config, concVars,
                   callerVars>>

LLMNext == LLMCall \/ LLMAttempt \/ LLMReturn

SpecLLM == LLMInit /\ [][LLMNext]_vars

(* The event loop runs a coroutine that is ready: a call that has begun is
   carried on until it returns or raises. *)
SpecLLMFair == SpecLLM /\ WF_vars(LLMAttempt)

----------------------------------------------------------------------------
(* Concurrent calls of HybridRetriever.search on one asyncio event loop and
   one Redis.  A coroutine runs from one await that suspends it to the
   next: the lookup (line 36), the vector search (line 42) and the store
   (line 103).  The lexical search of line 41 is a plain call of a
   synchronous function (ElasticBM25Service.search): the coroutine keeps
   the event loop for as long as that call lasts.  Backends and Redis
   answer without failure here; their failures are in SpecCache. *)

MaxTasks == 2

TaskIds == 1..MaxTasks

(* the locals of one call of search that has not begun *)
IdleTask ==
    [pc |-> "idle", alpha |-> Zero, query |-> "", top_k |-> 0,
     filter_metadata |-> FilterNone, cache_key |-> NoKey,
     bm25_results |-> <<>>, vector_results |-> <<>>, ranked |-> <<>>,
     returned |-> Unset, hit |-> FALSE, ops |-> <<>>]

(* (self.alpha, query, top_k, filter_metadata) of the concurrent calls *)
ConcArgs ==
    {<<Rat(1, 2), "q", 2, FilterNone>>,
     <<Rat(3, 5), "q", 2, FilterNone>>,
     <<Rat(1, 2), "q", 1, FilterNone>>}

ConcLexResponses ==
    {<<>>,
     <<HitWith({"id", "document", "score"}, PyStr("a"), PyStr("cat"), {}, 100)>>}

ConcSemResponses ==
    {<<>>,
     <<Hit(PyStr("b"), PyStr("dog"), {"src=qd"}, 9)>>}

(* cache on with a Redis client, and cache off *)
ConcEnvs ==
    {Env("unset", "redis://cache", "unset"),
     Env("false", "redis://cache", "unset")}

(* Faulty variant: the intermediate lists are attributes of a shared object,
   every call works on those of the first one *)
Locals_shared(i) == tasks[1]

(* the frame of coroutine i: search keeps everything in local variables *)
Locals(i) == tasks[i]

ConcInit ==
    /\ pc = "idle"
    /\ alpha = Rat(1, 2)
    /\ top_k = 0
    /\ bm25_results = <<>> /\ vector_results = <<>>
    /\ results = <<>> /\ ranked = <<>>
    /\ npc = "off" /\ scores = <<>> /\ normalized = <<>>
    /\ error = "none"
    /\ query = "" /\ filter_metadata = FilterNone
    /\ env \in ConcEnvs
    /\ cache = {}
    /\ cache_key = NoKey
    /\ returned = Unset
    /\ bm25_calls = <<>> /\ vector_calls = <<>>
    /\ redis_ops = <<>>
    /\ llm_config = NoLLMConfig /\ llm_call = NoLLMCall
    /\ tasks = [i \in TaskIds |-> IdleTask]
    /\ loop = 0
    /\ handler = "none" /\ response = NoResponse

(* everything but the tasks, the event loop and the content of Redis *)
concFrame ==
    <<searchVars, normVars, query, filter_metadata, env, cache_key, returned,
      bm25_calls, vector_calls, redis_ops, llmVars, callerVars>>

(* lines 32-36 (and 41 when the cache is off): the call begins.  With the
   cache on it computes the key and awaits the GET; with the cache off it
   goes on to the lexical call without giving up the event loop. *)
TaskCallWith(i, Args) ==
    /\ loop = 0
    /\ tasks[i].pc = "idle"
    /\ \E args \in Args :
          tasks' = [tasks EXCEPT ![i] =
                      [@ EXCEPT !.alpha = args[1], !.query = args[2],
                                !.top_k = args[3],
                                !.filter_metadata = args[4],
                                !.cache_key =
                                    IF cache_enabled(env)
                                    THEN make_cache_key(args[2], args[3],
                                                        args[1], args[4])
                                    ELSE NoKey,
                                !.ops =
                                    IF cache_enabled(env)
                                    THEN <<RedisGet(
                                             make_cache_key(args[2], args[3],
                                                            args[1], args[4]),
                                             "ok")>>
                                    ELSE <<>>,
                                !.pc = IF cache_enabled(env) THEN "lookup"
                                       ELSE "bm25"]]
    /\ loop' = IF cache_enabled(env) THEN 0 ELSE i
    /\ UNCHANGED <<cache, concFrame>>

TaskCall(i) == TaskCallWith(i, ConcArgs)

(* lines 36-41: Redis answers the GET.  A stored payload is decoded and
   returned; on a miss the coroutine goes on to the lexical call. *)
TaskLookupReturn(i) ==
    /\ loop = 0
    /\ tasks[i].pc = "lookup"
    /\ LET stored == {e \in cache : e.key = tasks[i].cache_key}
       IN IF stored # {}
          THEN /\ tasks' = [tasks EXCEPT ![i] =
                              [@ EXCEPT !.returned =
                                            json_loads((CHOOSE e \in stored :
                                                           TRUE).payload),
                                        !.hit = TRUE, !.pc = "done"]]
               /\ loop' = 0
          ELSE /\ tasks' = [tasks EXCEPT ![i] = [@ EXCEPT !.pc = "bm25"]]
               /\ loop' = i
    /\ UNCHANGED <<cache, concFrame>>

(* lines 41-42: the lexical call returns, the coroutine calls the vector
   backend and awaits it, which frees the event loop *)
TaskBm25Return(i) ==
    /\ loop = i
    /\ tasks[i].pc = "bm25"
    /\ \E rs \in ConcLexResponses :
          tasks' = [tasks EXCEPT ![i] =
                      [@ EXCEPT !.bm25_results = rs, !.pc = "vector"]]
    /\ loop' = 0
    /\ UNCHANGED <<cache, concFrame>>

(* lines 42-103: the vector backend answers; the lists are fused and
   ranked; with the cache on the SET is sent and awaited *)
TaskVectorReturn(i) ==
    /\ loop = 0
    /\ tasks[i].pc = "vector"
    /\ \E rs \in ConcSemResponses :
          LET ranked_i == rank(fuse(Locals(i).alpha, Locals(i).bm25_results,
                                    rs),
                               Locals(i).top_k)
          IN  tasks' = [tasks EXCEPT ![i] =
                          [@ EXCEPT !.vector_results = rs,
                                    !.ranked = ranked_i,
                                    !.returned = IF cache_enabled(env)
                                                 THEN Unset
                                                 ELSE ListValue(ranked_i),
                                    !.pc = IF cache_enabled(env) THEN "store"
                                           ELSE "done"]]
    /\ loop' = 0
    /\ UNCHANGED <<cache, concFrame>>

(* lines 103-106: Redis carries out the SET and answers; search returns
   ranked *)
TaskStoreReturn(i) ==
    /\ loop = 0
    /\ tasks[i].pc = "store"
    /\ LET t == tasks[i]
           payload == cache_payload(t.ranked)
       IN /\ cache' = {e \in cache : e.key # t.cache_key}
                          \cup {[key |-> t.cache_key, payload |-> payload,
                                 ex |-> _get_ttl_seconds(env),
                                 origin |-> t.ranked]}
          /\ tasks' = [tasks EXCEPT ![i] =
                         [@ EXCEPT !.ops = Append(@, RedisSet(t.cache_key,
                                                     payload,
                                                     _get_ttl_seconds(env),
                                                     "ok")),
                                   !.returned = ListValue(t.ranked),
                                   !.pc = "done"]]
    /\ loop' = 0
    /\ UNCHANGED concFrame

ConcNext ==
    \E i \in TaskIds :
        \/ TaskCall(i)
        \/ TaskLookupReturn(i)
        \/ TaskBm25Return(i)
        \/ TaskVectorReturn(i)
        \/ TaskStoreReturn(i)

SpecConc == ConcInit /\ [][ConcNext]_vars

----------------------------------------------------------------------------
(* Two calls of search, on one retriever or on two that share a Redis, whose
   arguments are drawn from calls that agree in all of (self.alpha, query,
   top_k, filter_metadata) or differ in one of them *)

KeyCalls == {1, 2}

KeyArgs ==
    {<<Rat(1, 2), "q", 2, FilterNone>>,
     <<Rat(1, 2), "q", 2, FilterDict({})>>,
     <<Rat(1, 2), "", 2, FilterNone>>,
     <<Rat(1, 2), "q", 1, FilterNone>>,
     <<Rat(3, 5), "q", 2, FilterNone>>,
     <<Rat(1, 2), "q", 2, FilterDict({"lang=en"})>>,
     <<Rat(1, 2), "q", 2, FilterDict({"lang=en", StrOfNotJson})>>,
     <<Rat(1, 2), "q", 2, FilterDict({"lang=en", NotJson})>>}

KeyInit ==
    /\ pc = "idle"
    /\ alpha = Rat(1, 2)
    /\ top_k = 0
    /\ bm25_results = <<>> /\ vector_results = <<>>
    /\ results = <<>> /\ ranked = <<>>
    /\ npc = "off" /\ scores = <<>> /\ normalized = <<>>
    /\ error = "none"
    /\ query = "" /\ filter_metadata = FilterNone
    /\ env = Env("unset", "redis://cache", "unset")
    /\ cache = {}
    /\ cache_key = NoKey
    /\ returned = Unset
    /\ bm25_calls = <<>> /\ vector_calls = <<>>
    /\ redis_ops = <<>>
    /\ llm_config = NoLLMConfig /\ llm_call = NoLLMCall
    /\ tasks = [i \in KeyCalls |-> IdleTask]
    /\ loop = 0
    /\ handler = "none" /\ response = NoResponse

KeyCall(i) == TaskCallWith(i, KeyArgs)

KeyNext ==
    \E i \in KeyCalls :
        \/ KeyCall(i)
        \/ TaskLookupReturn(i)
        \/ TaskBm25Return(i)
        \/ TaskVectorReturn(i)
        \/ TaskStoreReturn(i)

SpecKey == KeyInit /\ [][KeyNext]_vars

----------------------------------------------------------------------------
(* Properties of _min_max_normalize (checked under SpecNorm) *)

AllEqual(ss) == \A i, j \in 1..Len(ss) : ss[i] = ss[j]

InUnit(x) == x[2] > 0 /\ 0 <= x[1] /\ x[1] <= x[2]

(* lo <= hi are within relative tolerance 1e-9 of each other *)
WithinRelTol(lo, hi) == (hi - lo) <= Max2(Abs(lo), Abs(hi)) \div 1000000000

(* C1 as stated: for a non-empty list the result has the same length, every
   value lies in [0,1], every occurrence of the maximum maps to 1.0 and every
   occurrence of the minimum maps to 0.0, unless all raw scores are EQUAL, in
   which case every value is 1.0. *)
C1_AsStated ==
    (npc = "ret" /\ scores # <<>>) =>
        /\ Len(normalized) = Len(scores)
        /\ \A i \in 1..Len(normalized) : InUnit(normalized[i])
        /\ IF AllEqual(scores)
           THEN \A i \in 1..Len(normalized) : normalized[i] = One
           ELSE \A i \in 1..Len(scores) :
                    /\ scores[i] = SeqMax(scores) => normalized[i] = One
                    /\ scores[i] = SeqMin(scores) => normalized[i] = Zero

(* C1 amended: as C1, but the exception is "unless the minimum and the maximum
   are within math.isclose's relative tolerance 1e-9 of each other" (which
   includes all scores equal); in that case every value is 1.0. *)
C1_NormalizeRange ==
    (npc = "ret" /\ scores # <<>>) =>
        /\ Len(normalized) = Len(scores)
        /\ \A i \in 1..Len(normalized) : InUnit(normalized[i])
        /\ IF WithinRelTol(SeqMin(scores), SeqMax(scores))
           THEN \A i \in 1..Len(normalized) : normalized[i] = One
           ELSE \A i \in 1..Len(scores) :
                    /\ scores[i] = SeqMax(scores) => normalized[i] = One
                    /\ scores[i] = SeqMin(scores) => normalized[i] = Zero

(* C1 witness: a returned list with a minimum at 0.0, a maximum at 1.0 and a
   value strictly between them. *)
C1_Witness ==
    /\ npc = "ret"
    /\ \E i, j, k \in 1..Len(normalized) :
          /\ scores[i] = SeqMin(scores) /\ normalized[i] = Zero
          /\ scores[j] = SeqMax(scores) /\ normalized[j] = One
          /\ RLt(Zero, normalized[k]) /\ RLt(normalized[k], One)

(* C2: the empty list normalizes to the empty list, a single-element list to
   [1.0], and a list of equal scores to 1.0 everywhere; every value returned
   is a quotient with a non-zero denominator. *)
C2_Degenerate ==
    npc = "ret" =>
        /\ scores = <<>> => normalized = <<>>
        /\ Len(scores) = 1 => normalized = <<One>>
        /\ AllEqual(scores) =>
              /\ Len(normalized) = Len(scores)
              /\ \A i \in 1..Len(normalized) : normalized[i] = One
        /\ \A i \in 1..Len(normalized) : normalized[i][2] > 0

(* C2 witness: a list of two or more equal scores has been normalized. *)
C2_Witness ==
    /\ npc = "ret"
    /\ Len(scores) >= 2
    /\ AllEqual(scores)
    /\ \A i \in 1..Len(normalized) : normalized[i] = One

----------------------------------------------------------------------------
(* Properties of HybridRetriever.search (checked under Spec) *)

KeysOf(rs) == {make_key(rs[i]) : i \in 1..Len(rs)}

LexKeys == KeysOf(bm25_results)
SemKeys == KeysOf(vector_results)
InputKeys == LexKeys \cup SemKeys

(* positions of key k in the backend list rs *)
Occurrences(rs, k) == {i \in 1..Len(rs) : make_key(rs[i]) = k}

(* normalized scores of the occurrences of k in rs, norm being the
   normalized scores of rs *)
NormScoresOf(rs, norm, k) == {norm[i] : i \in Occurrences(rs, k)}

(* the returned list is the first Len(ranked) entries of the sorted results *)
RankedIsPrefix ==
    /\ Len(ranked) <= Len(results)
    /\ \A i \in 1..Len(ranked) : ranked[i] = results[i][2]

Min2(a, b) == IF a <= b THEN a ELSE b

(* C3: when top_k is at least the number of distinct MergeKeys, every
   distinct MergeKey of either backend list appears exactly once in the
   returned list, and the returned list holds no other key. *)
C3_MergeCompleteness ==
    (pc = "done" /\ top_k >= Cardinality(InputKeys)) =>
        /\ RankedIsPrefix
        /\ \A k \in InputKeys :
              Cardinality({i \in 1..Len(ranked) : results[i][1] = k}) = 1
        /\ \A i \in 1..Len(ranked) : results[i][1] \in InputKeys

(* C3 witness: two distinct keys, more hits than keys (a key is repeated in a
   list or shared by both lists), one of the hits has no id, and top_k covers
   all keys. *)
C3_Witness ==
    /\ pc = "done"
    /\ Cardinality(InputKeys) = 2
    /\ top_k >= 2
    /\ Len(bm25_results) + Len(vector_results) > 2
    /\ \E i \in 1..Len(bm25_results) : "id" \notin bm25_results[i].keys
    /\ Len(ranked) = 2

(* C4: the returned list has exactly min(top_k, number of distinct MergeKeys)
   entries; two empty backend lists give the empty list. *)
C4_Truncation ==
    pc = "done" =>
        /\ Len(ranked) = Min2(top_k, Cardinality(InputKeys))
        /\ (bm25_results = <<>> /\ vector_results = <<>>) => ranked = <<>>

(* C4 witness: there are more distinct keys than top_k and the list was cut. *)
C4_Witness ==
    /\ pc = "done"
    /\ Cardinality(InputKeys) > top_k
    /\ Len(ranked) = top_k

(* C5: with alpha in [0,1], every returned entry has bm25_score,
   semantic_score and score in [0.0, 1.0]. *)
C5_ScoreBounds ==
    (pc = "done" /\ RLeq(Zero, alpha) /\ RLeq(alpha, One)) =>
        \A i \in 1..Len(ranked) :
            /\ InUnit(ranked[i].bm25_score)
            /\ InUnit(ranked[i].semantic_score)
            /\ InUnit(ranked[i].score)

(* C5 witness: an entry whose three scores are 1.0, 0.0 and strictly between,
   next to an entry with an interior component score. *)
C5_Witness ==
    /\ pc = "done"
    /\ \E i, j \in 1..Len(ranked) :
          /\ ranked[i].bm25_score = One /\ ranked[i].semantic_score = Zero
          /\ RLt(Zero, ranked[i].score) /\ RLt(ranked[i].score, One)
          /\ RLt(Zero, ranked[j].bm25_score) /\ RLt(ranked[j].bm25_score, One)

(* the sorted results are the entries of u (the results before the sort, in
   dict insertion order) ranked by component c alone: higher c first, entries
   with equal c in the order they have in u *)
RankedByIn(c, u) ==
    LET pos(k) == CHOOSE i \in 1..Len(u) : u[i][1] = k
    IN /\ Len(results) = Len(u)
       /\ Len(results) = Cardinality(InputKeys)
       /\ {results[i][1] : i \in 1..Len(results)} = {u[i][1] : i \in 1..Len(u)}
       /\ \A i, j \in 1..Len(results) :
             i < j =>
                \/ RLt(results[j][2][c], results[i][2][c])
                \/ /\ results[j][2][c] = results[i][2][c]
                   /\ pos(results[i][1]) < pos(results[j][1])

RankedBy(c) ==
    \A u \in {unsorted_results(alpha, bm25_results, vector_results)} :
        RankedByIn(c, u)

(* C6: with alpha = 0.0 the returned order is the ranking by bm25_score alone
   (an entry with bm25_score 1.0 is above one with 0.0 whatever the semantic
   scores); with alpha = 1.0 it is the ranking by semantic_score alone. *)
C6_AlphaBoundary ==
    pc = "done" =>
        /\ RankedIsPrefix
        /\ alpha = Zero => RankedBy("bm25_score")
        /\ alpha = One => RankedBy("semantic_score")

(* C6 witness: alpha = 0.0 and a returned entry with the higher bm25_score
   but the lower semantic_score stands above another returned entry. *)
C6_Witness ==
    /\ pc = "done"
    /\ alpha = Zero
    /\ \E i, j \in 1..Len(ranked) :
          /\ i < j
          /\ ranked[i].bm25_score = One /\ ranked[j].bm25_score = Zero
          /\ RLt(ranked[i].semantic_score, ranked[j].semantic_score)

(* C7: the returned list is ordered by score, non-increasing, and every merged
   entry left out by the truncation has a score no greater than the score of
   every returned entry. *)
C7_RankingTopK ==
    pc = "done" =>
        /\ RankedIsPrefix
        /\ {results[i][1] : i \in 1..Len(results)} = InputKeys
        /\ \A i, j \in 1..Len(ranked) :
              i < j => RLeq(ranked[j].score, ranked[i].score)
        /\ \A i \in 1..Len(ranked) : \A j \in (Len(ranked) + 1)..Len(results) :
              RLeq(results[j][2].score, ranked[i].score)

(* C7 witness: two returned entries with different scores and an omitted
   entry with a still lower score. *)
C7_Witness ==
    /\ pc = "done"
    /\ Len(ranked) = 2
    /\ Len(results) = 3
    /\ RLt(ranked[2].score, ranked[1].score)
    /\ RLt(results[3][2].score, ranked[2].score)

(* C8: every returned entry's score equals
   alpha * semantic_score + (1 - alpha) * bm25_score of that same entry
   (stated over the numerators and denominators). *)
C8_ScoreFormula ==
    pc = "done" =>
        \A i \in 1..Len(ranked) :
            LET sc == ranked[i].score
                sem == ranked[i].semantic_score
                bm == ranked[i].bm25_score
            IN sc[1] * (alpha[2] * sem[2] * bm[2]) =
               sc[2] * (alpha[1] * sem[1] * bm[2]
                        + (alpha[2] - alpha[1]) * bm[1] * sem[2])

(* C8 witness: alpha = 1/2 and a returned entry with bm25_score 1/2,
   semantic_score 0.0 and score 1/4. *)
C8_Witness ==
    /\ pc = "done"
    /\ alpha = <<1, 2>>
    /\ \E i \in 1..Len(ranked) :
          /\ ranked[i].semantic_score = Zero
          /\ ranked[i].bm25_score = <<1, 2>>
          /\ ranked[i].score = <<1, 4>>

(* C9: a fused entry whose key is not in the lexical list has bm25_score 0.0,
   one whose key is not in the semantic list has semantic_score 0.0; a key
   that occurs in a backend's list carries a normalized score that backend's
   list gives it. *)
C9_MissingDefault ==
    pc = "done" =>
        \A bn \in {_min_max_normalize(raw_scores(bm25_results))} :
        \A vn \in {_min_max_normalize(raw_scores(vector_results))} :
        \A i \in 1..Len(results) :
            LET k == results[i][1]
                out == results[i][2]
            IN /\ k \notin LexKeys => out.bm25_score = Zero
               /\ k \notin SemKeys => out.semantic_score = Zero
               /\ k \in LexKeys =>
                     out.bm25_score \in NormScoresOf(bm25_results, bn, k)
               /\ k \in SemKeys =>
                     out.semantic_score \in NormScoresOf(vector_results, vn, k)

(* C9 witness: the returned list holds a lexical-only entry with a non-zero
   bm25_score and a semantic-only entry with a non-zero semantic_score. *)
C9_Witness ==
    /\ pc = "done"
    /\ RankedIsPrefix
    /\ \E i, j \in 1..Len(ranked) :
          /\ results[i][1] \in LexKeys \ SemKeys
          /\ ranked[i].bm25_score # Zero /\ ranked[i].semantic_score = Zero
          /\ results[j][1] \in SemKeys \ LexKeys
          /\ ranked[j].semantic_score # Zero /\ ranked[j].bm25_score = Zero

(* the largest rational of a non-empty set *)
RMaxOf(S) == CHOOSE m \in S : \A x \in S : RLeq(x, m)

(* C10 as stated: when a MergeKey occurs more than once in the semantic list,
   the fused semantic_score is the maximum of the normalized scores of all
   its occurrences. *)
C10_DuplicateMax ==
    pc = "done" =>
        \A vn \in {_min_max_normalize(raw_scores(vector_results))} :
        \A i \in 1..Len(results) :
            LET k == results[i][1]
            IN Cardinality(Occurrences(vector_results, k)) > 1 =>
                  results[i][2].semantic_score =
                      RMaxOf(NormScoresOf(vector_results, vn, k))

----------------------------------------------------------------------------
(* Properties of the merge over hits of every shape (checked under SpecDoc) *)

(* the hit of rs that the dict comprehension of lines 54-55 keeps for key k:
   the last one *)
LastWith(rs, k) ==
    rs[CHOOSE i \in Occurrences(rs, k) : \A j \in Occurrences(rs, k) : j <= i]

(* the hit's document, None when the dict has none *)
DocOf(r) == Get(r, "document", PyNone)

(* length of a document text; a missing or None document has no text *)
TextLen(v) == IF v.t = "str" THEN Len(v.s) ELSE 0

(* the hit's metadata, empty when the dict has none *)
MetaOf(r) == Get(r, "metadata", {})

(* C11: for a MergeKey in both lists the fused document is the semantic
   hit's document when its text is strictly longer than the lexical hit's,
   and the lexical hit's document otherwise (equal lengths, or the semantic
   document empty or missing); for a key in one list only it is that hit's
   document.  The hit of a list for a key is the last one with that key. *)
C11_DocumentSelection ==
    pc = "done" =>
        /\ RankedIsPrefix
        /\ \A i \in 1..Len(results) :
              LET k == results[i][1]
                  d == results[i][2].document
              IN IF k \in LexKeys /\ k \in SemKeys
                 THEN LET ld == DocOf(LastWith(bm25_results, k))
                          sd == DocOf(LastWith(vector_results, k))
                      IN d = IF TextLen(sd) > TextLen(ld) THEN sd ELSE ld
                 ELSE IF k \in LexKeys
                      THEN d = DocOf(LastWith(bm25_results, k))
                      ELSE d = DocOf(LastWith(vector_results, k))

(* C11 witness: key b is in both lists, the semantic text "doggo" is longer
   than the lexical "dog", and the returned entry carries "doggo". *)
C11_Witness ==
    /\ pc = "done"
    /\ "b" \in LexKeys /\ "b" \in SemKeys
    /\ DocOf(LastWith(bm25_results, "b")) = PyStr("dog")
    /\ DocOf(LastWith(vector_results, "b")) = PyStr("doggo")
    /\ \E i \in 1..Len(ranked) : ranked[i].document = PyStr("doggo")

(* C12: for a MergeKey in both lists the fused metadata is the semantic
   hit's metadata when that is present and non-empty, and the lexical hit's
   metadata otherwise; for a key in one list only it is that hit's metadata
   (empty when the hit has none). *)
C12_MetadataSelection ==
    pc = "done" =>
        /\ RankedIsPrefix
        /\ \A i \in 1..Len(results) :
              LET k == results[i][1]
                  m == results[i][2].metadata
              IN IF k \in LexKeys /\ k \in SemKeys
                 THEN LET lm == MetaOf(LastWith(bm25_results, k))
                          sm == MetaOf(LastWith(vector_results, k))
                      IN m = IF sm # {} THEN sm ELSE lm
                 ELSE IF k \in LexKeys
                      THEN m = MetaOf(LastWith(bm25_results, k))
                      ELSE m = MetaOf(LastWith(vector_results, k))

(* C12 witness: two keys are in both lists.  For key b the semantic hit has
   no metadata and the lexical metadata is kept; for the other key both hits
   have metadata and the semantic one is returned. *)
C12_Witness ==
    /\ pc = "done"
    /\ "b" \in LexKeys /\ "b" \in SemKeys
    /\ MetaOf(LastWith(bm25_results, "b")) = {"src=es"}
    /\ MetaOf(LastWith(vector_results, "b")) = {}
    /\ \E k \in (LexKeys \cap SemKeys) \ {"b"} :
          /\ MetaOf(LastWith(bm25_results, k)) = {"src=es"}
          /\ MetaOf(LastWith(vector_results, k)) = {"src=qd"}
    /\ {ranked[i].metadata : i \in 1..Len(ranked)} = {{"src=es"}, {"src=qd"}}

(* the backend lists of end-to-end scenario 1, scores in tenths *)
Scenario1 ==
    /\ alpha = Rat(1, 2)
    /\ bm25_results =
          <<HitWith({"id", "document", "score"}, PyStr("a"), PyStr("cat"), {}, 100),
            HitWith({"id", "document", "score"}, PyStr("b"), PyStr("dog"), {}, 50)>>
    /\ vector_results =
          <<HitWith({"id", "document", "score"}, PyStr("b"), PyStr("doggo"), {}, 9)>>

(* C18: with the lists of scenario 1, alpha = 0.5 and a top_k that does not
   cut the list (any top_k >= 2, as the default 10), search returns exactly
   two entries: key a with document cat, bm25_score 1.0, semantic_score 0.0,
   score 0.5, and key b with document doggo, bm25_score 0.0, semantic_score
   1.0, score 0.5. *)
C18_Scenario1 ==
    (pc = "done" /\ Scenario1 /\ top_k >= 2) =>
        /\ Len(ranked) = 2
        /\ RankedIsPrefix
        /\ {<<results[i][1], ranked[i]>> : i \in 1..2} =
              {<<"a", [id |-> PyStr("a"), document |-> PyStr("cat"),
                       metadata |-> {}, bm25_score |-> One,
                       semantic_score |-> Zero, score |-> Rat(1, 2)]>>,
               <<"b", [id |-> PyStr("b"), document |-> PyStr("doggo"),
                       metadata |-> {}, bm25_score |-> Zero,
                       semantic_score |-> One, score |-> Rat(1, 2)]>>}

(* C18 witness: the call of scenario 1 has returned its two entries. *)
C18_Witness ==
    /\ pc = "done"
    /\ Scenario1
    /\ top_k = 2
    /\ Len(ranked) = 2
    /\ ranked[1].score = Rat(1, 2) /\ ranked[2].score = Rat(1, 2)

(* the hit has no usable id: make_key falls back to the document *)
IdLess(r) == ~Truthy(Get(r, "id", PyNone))

(* the text make_key hashes for an id-less hit; "" when the dict has no
   document *)
DocText(r) == Get(r, "document", PyStr(""))

(* the hit has neither a non-empty id nor a document *)
Malformed(r) == IdLess(r) /\ "document" \notin r.keys

(* the hits of both backend lists *)
AllHits ==
    {bm25_results[i] : i \in 1..Len(bm25_results)}
        \cup {vector_results[i] : i \in 1..Len(vector_results)}

(* the hit carries a document that is neither text nor None *)
NonTextDoc(r) == DocOf(r).t \notin {"str", "none"}

(* C19: a hit without id and without document never makes search raise: a
   call raises only when some hit carries a document that is not text, and
   every other call returns a list that holds the key of each malformed hit
   when top_k does not cut it.  Two hits without id get the same MergeKey
   exactly when their document texts are equal (a missing document is the
   empty text), and an id-less lexical hit and an id-less semantic hit with
   the same text are merged into one entry. *)
C19_MalformedHits ==
    /\ pc = "raised" => \E r \in AllHits : NonTextDoc(r)
    /\ (pc \in {"done", "raised"} /\ \A r \in AllHits : ~NonTextDoc(r)) =>
          /\ pc = "done" /\ error = "none"
          /\ \A r \in AllHits :
                (Malformed(r) /\ top_k >= Len(results)) =>
                    /\ make_key(r) = hash_str(PyStr(""))
                    /\ \E i \in 1..Len(ranked) : results[i][1] = make_key(r)
    /\ \A r1, r2 \in AllHits :
          (IdLess(r1) /\ IdLess(r2)) =>
              (make_key(r1) = make_key(r2) <=> DocText(r1) = DocText(r2))
    /\ pc = "done" =>
          \A i \in 1..Len(bm25_results), j \in 1..Len(vector_results) :
              (/\ IdLess(bm25_results[i]) /\ IdLess(vector_results[j])
               /\ DocText(bm25_results[i]) = DocText(vector_results[j])) =>
                  Cardinality({n \in 1..Len(results) :
                                  results[n][1] = make_key(bm25_results[i])}) = 1

(* C19 witness: each list holds a malformed hit and an id-less hit with the
   document dog; the call returns two entries, one per text, each of them
   fused from a lexical and a semantic hit. *)
C19_Witness ==
    /\ pc = "done"
    /\ \E i, j \in 1..Len(bm25_results) :
          Malformed(bm25_results[i]) /\ DocText(bm25_results[j]) = PyStr("dog")
                                    /\ IdLess(bm25_results[j])
    /\ \E i, j \in 1..Len(vector_results) :
          Malformed(vector_results[i]) /\ DocText(vector_results[j]) = PyStr("dog")
                                      /\ IdLess(vector_results[j])
    /\ Len(ranked) = 2
    /\ \A i \in 1..2 : ranked[i].semantic_score = One /\ ranked[i].bm25_score = One

----------------------------------------------------------------------------
(* Properties of search with its cache (checked under SpecCache) *)

SeqToSet(sq) == {sq[i] : i \in 1..Len(sq)}

(* the commands of one kind the running call has sent to Redis *)
OpsOf(kind) == {redis_ops[i] : i \in {j \in 1..Len(redis_ops) : redis_ops[j].op = kind}}

(* the running call found its key in the cache and returned the stored value *)
CacheHit ==
    /\ pc = "done"
    /\ bm25_calls = <<>> /\ vector_calls = <<>>
    /\ \E o \in OpsOf("GET") : o.outcome = "ok"

(* the arguments the caller gave *)
CallerArgs ==
    [query |-> query, top_k |-> top_k, filter_metadata |-> filter_metadata]

(* C13: when the lexical or the vector backend call raises, search raises
   that error: it returns no value, neither a partial nor an empty list, and
   it sends no SET to the cache. *)
C13_BackendFailureFatal ==
    /\ (\E c \in SeqToSet(bm25_calls) : c.outcome = "raised") =>
          /\ pc = "raised" /\ error = "LexicalError"
          /\ returned = Unset
          /\ OpsOf("SET") = {}
    /\ (\E c \in SeqToSet(vector_calls) : c.outcome = "raised") =>
          /\ pc = "raised" /\ error = "VectorError"
          /\ returned = Unset
          /\ OpsOf("SET") = {}

(* C13 witness: the cache is enabled and reachable, the lookup missed, the
   lexical backend returned a hit and the vector backend raised. *)
C13_Witness ==
    /\ cache_enabled(env) /\ has_client(env)
    /\ redis_ops = <<RedisGet(cache_key, "ok")>>
    /\ bm25_results # <<>>
    /\ \E c \in SeqToSet(vector_calls) : c.outcome = "raised"
    /\ pc = "raised" /\ error = "VectorError"

(* C14: with the cache enabled, when the lookup (cache_get_json, the Redis
   GET) raises, search does not raise the cache error to its caller. *)
C14_ReadFailureSwallowed ==
    (\E o \in OpsOf("GET") : o.outcome = "raised") =>
        ~(pc = "raised" /\ error = "RedisError")

(* the list lines 44-99 compute from the two backend lists of the call *)
Fused == rank(fuse(alpha, bm25_results, vector_results), top_k)

(* C15: with the cache enabled, when storing the result (cache_set_json, the
   Redis SET) raises after the fusion, search raises nothing and returns the
   ranked list it computed. *)
C15_WriteFailureSwallowed ==
    (\E o \in OpsOf("SET") : o.outcome = "raised") =>
        /\ pc = "done" /\ error = "none"
        /\ ranked = Fused
        /\ returned = ListValue(ranked)

(* C15 witness: the SET of a list of two entries raised and the call
   returned that list. *)
C15_Witness ==
    /\ pc = "done"
    /\ \E o \in OpsOf("SET") : o.outcome = "raised"
    /\ Len(ranked) = 2
    /\ returned = ListValue(ranked)

(* C16: the value a cache hit returns is the list that the computation of
   the miss returned and stored under the key, also when that list holds
   metadata values json.dumps cannot encode; so a call answered from the
   cache returns what the same call returns with the cache disabled. *)
C16_CacheTransparent ==
    CacheHit =>
        /\ returned.kind = "list"
        /\ \A e \in cache : e.key = cache_key => returned = ListValue(e.origin)

(* the cache is enabled and a Redis client is configured *)
CacheInUse == cache_enabled(env) /\ has_client(env)

(* the TTL the environment configures: REDIS_CACHE_TTL_SECONDS when it is a
   number, 600 seconds when it is unset or no number *)
ConfiguredTtl ==
    IF env.REDIS_CACHE_TTL_SECONDS = "60" THEN 60 ELSE 600

(* C17: with the cache in use, a call whose key has a stored value returns
   the decoded value and invokes no backend; the backends are invoked only
   when the key has no stored value, and a call that then completes has
   invoked each backend, fused the lists, and sent SET for the same key with
   the encoded list and the configured TTL before it returns the list.  With
   the cache disabled or no Redis configured nothing is read or written. *)
C17_CacheProtocol ==
    /\ CacheHit =>
          /\ CacheInUse
          /\ redis_ops = <<RedisGet(cache_key, "ok")>>
          /\ returned # Unset
          /\ \A e \in cache : e.key = cache_key => returned = json_loads(e.payload)
    /\ (CacheInUse /\ pc \in {"bm25", "vector", "store"}) =>
          /\ redis_ops = <<RedisGet(cache_key, "ok")>>
          /\ \A e \in cache : e.key # cache_key
    /\ (CacheInUse /\ pc = "done" /\ ~CacheHit) =>
          /\ Len(bm25_calls) = 1 /\ Len(vector_calls) = 1
          /\ ranked = Fused
          /\ returned = ListValue(ranked)
          /\ Len(redis_ops) = 2
          /\ redis_ops[1] = RedisGet(cache_key, "ok")
          /\ redis_ops[2] \in {RedisSet(cache_key, cache_payload(ranked),
                                        ConfiguredTtl, outcome) :
                                    outcome \in {"ok", "raised"}}
          /\ cache_key = make_cache_key(query, top_k, alpha, filter_metadata)
          /\ ~json_dumps_raises(ranked) =>
                json_loads(redis_ops[2].payload) = ListValue(ranked)
          /\ redis_ops[2].outcome = "ok" =>
                \A e \in cache : e.key = cache_key =>
                    e.payload = cache_payload(ranked) /\ e.ex = ConfiguredTtl
    /\ ~CacheInUse => redis_ops = <<>> /\ cache = {}

(* C17 witness: a list of two entries was stored with the configured TTL of
   60 seconds, and a later call with the same arguments got it from the
   cache without a backend call. *)
C17_Witness ==
    /\ CacheHit
    /\ returned.kind = "list" /\ Len(returned.items) = 2
    /\ \E e \in cache : e.key = cache_key /\ e.ex = 60
                          /\ json_loads(e.payload) = returned

(* the running call was not answered from the cache and has ended, with a
   list or with the exception of a backend *)
MissEnded ==
    \/ pc = "done" /\ ~CacheHit
    \/ pc = "raised" /\ error \in {"LexicalError", "VectorError"}

(* C20 as stated: on every cache miss each backend is invoked exactly once
   with the caller's arguments. *)
C20_AsStated ==
    MissEnded =>
        /\ Len(bm25_calls) = 1 /\ bm25_calls[1].args = CallerArgs
        /\ Len(vector_calls) = 1 /\ vector_calls[1].args = CallerArgs

(* C20: on every cache miss search invokes the lexical backend exactly once
   and, unless that call raises, the vector backend exactly once (not at all
   when it raises); every backend call gets the caller's query, top_k and
   filter_metadata as they are, an empty query and a None filter included;
   search does not change its filter_metadata while it runs. *)
C20_PassThrough ==
    /\ [](/\ \A c \in SeqToSet(bm25_calls) \cup SeqToSet(vector_calls) :
                c.args = CallerArgs
          /\ Len(bm25_calls) <= 1 /\ Len(vector_calls) <= 1
          /\ MissEnded =>
                /\ Len(bm25_calls) = 1
                /\ Len(vector_calls) =
                      IF bm25_calls[1].outcome = "raised" THEN 0 ELSE 1)
    /\ [][(pc # "idle" /\ pc' # "idle") =>
              (filter_metadata' = filter_metadata /\ query' = query
                  /\ top_k' = top_k)]_vars

(* C20 witness: a miss with the empty query and no filter has ended and both
   backends got exactly those arguments. *)
C20_Witness ==
    /\ pc = "done" /\ ~CacheHit
    /\ query = "" /\ filter_metadata = FilterNone
    /\ bm25_calls = <<[args |-> [query |-> "", top_k |-> 1,
                                  filter_metadata |-> FilterNone],
                        outcome |-> "returned"]>>
    /\ vector_calls = bm25_calls

(* C29: within one search on a cache miss the lexical backend is always
   invoked and has returned before the vector backend is invoked; when the
   lexical backend raises, the vector backend is not invoked for that call. *)
C29_BackendOrder ==
    /\ [](/\ vector_calls # <<>> =>
                /\ bm25_calls # <<>>
                /\ bm25_calls[1].outcome = "returned"
          /\ (\E c \in SeqToSet(bm25_calls) : c.outcome = "raised") =>
                vector_calls = <<>>
          /\ MissEnded => bm25_calls # <<>>)
    /\ [][Len(vector_calls') > Len(vector_calls) =>
              /\ Len(bm25_calls) = 1
              /\ bm25_calls[1].outcome = "returned"
              /\ bm25_calls' = bm25_calls]_vars

(* C29 witness: on a miss with the cache in use the lexical backend has
   returned a hit and the vector backend is being awaited, not yet invoked
   in the record of the call *)
C29_Witness ==
    /\ pc = "vector"
    /\ cache_enabled(env) /\ has_client(env)
    /\ bm25_results # <<>>
    /\ Len(bm25_calls) = 1 /\ bm25_calls[1].outcome = "returned"
    /\ vector_calls = <<>>

----------------------------------------------------------------------------
(* Properties of the callers (checked under SpecCallers) *)

(* a backend call of the search that served the request raised *)
BackendFailed ==
    \E c \in SeqToSet(bm25_calls) \cup SeqToSet(vector_calls) : c.outcome = "raised"

(* C21: on every path that calls the fuser, when a backend fails the caller
   receives an error: no handler answers with a document list, and none
   generates an answer from one. *)
C21_NoSilentDegradation ==
    (pc = "responded" /\ BackendFailed) =>
        /\ response.status # 200
        /\ ~response.answered

----------------------------------------------------------------------------
(* Order of entries with equal scores (checked under Spec) *)

MinOf(S) == CHOOSE x \in S : \A y \in S : x <= y

(* the place of MergeKey k in the order of insertion: the keys of the
   lexical list in the order of their first occurrence, then the keys that
   only the semantic list holds in the order of their first occurrence *)
InsertionRank(k) ==
    IF k \in LexKeys
    THEN MinOf(Occurrences(bm25_results, k))
    ELSE Len(bm25_results) + MinOf(Occurrences(vector_results, k))

(* C28: entries with exactly equal final score appear in the returned list
   in the insertion order of their MergeKeys (lexical keys by first
   occurrence, then semantic-only keys by first occurrence), also where the
   truncation to top_k cuts through a group of equal scores. *)
C28_TieBreak ==
    pc = "done" =>
        /\ RankedIsPrefix
        /\ \A i, j \in 1..Len(results) :
              (/\ i < j
               /\ RLeq(results[i][2].score, results[j][2].score)
               /\ RLeq(results[j][2].score, results[i][2].score))
              => InsertionRank(results[i][1]) < InsertionRank(results[j][1])

(* a lexical key and a key that only the semantic list holds have the same
   score and are both returned, and a third entry with that score is cut *)
C28_Witness ==
    /\ pc = "done"
    /\ Len(ranked) = 2
    /\ Len(results) = 3
    /\ results[1][1] \in LexKeys
    /\ results[2][1] \notin LexKeys
    /\ ranked[1].score = ranked[2].score
    /\ results[3][2].score = ranked[2].score

----------------------------------------------------------------------------
(* Properties of LLMService._execute_with_fallback (checked under SpecLLM
   and SpecLLMFair) *)

(* how often the running call has invoked provider p *)
Invocations(p) ==
    Cardinality({i \in 1..Len(llm_call.invoked) : llm_call.invoked[i] = p})

(* fallback_order holds no provider after (the first occurrence of) p; true
   as well when p is not in fallback_order *)
NoLater(p) ==
    \A i \in 1..Len(llm_config.fallback_order) :
        llm_config.fallback_order[i] = p
            => \/ i = Len(llm_config.fallback_order)
               \/ \E j \in 1..(i - 1) : llm_config.fallback_order[j] = p

LLMEnded == llm_call.pc \in {"returned", "raised"}

(* C22: when the current provider's call raises and fallback_order holds no
   later provider (the provider may be the only one, or not be in
   fallback_order at all), the call raises "All providers failed for
   <operation>" and that provider has been invoked exactly once. *)
C22_FallbackExhaustion ==
    \A p \in LLMProviders :
        (/\ llm_call.current_provider = p
         /\ Invocations(p) >= 1
         /\ p \in llm_call.failing
         /\ NoLater(p))
        => /\ llm_call.pc = "raised"
           /\ llm_call.result = AllFailed(llm_call.operation)
           /\ Invocations(p) = 1

(* the second provider of the order fails after a fallback and is the last *)
C22_Witness ==
    /\ llm_call.pc = "raised"
    /\ llm_call.result = AllFailed("Text generation")
    /\ llm_call.invoked = <<"groq", "llama">>
    /\ llm_config.fallback_order = <<"groq", "llama">>

(* the positions after the starting provider in fallback_order whose
   provider is configured and does not fail in this call *)
WorkingLater ==
    LET order == llm_config.fallback_order
        start == index(order, llm_call.provider)
    IN  IF start = 0 THEN {}
        ELSE {j \in (start + 1)..Len(order) :
                /\ order[j] \in llm_config.providers
                /\ order[j] \notin llm_call.failing}

(* C23: for every fallback_order, every max_retries >= 1 and every pattern
   of failures, when the starting provider fails and a later provider of
   fallback_order would succeed, the call returns the result of the first
   such provider instead of raising. *)
C23_AutomaticFallback ==
    (/\ LLMEnded
     /\ llm_config.max_retries >= 1
     /\ llm_call.provider \in llm_config.providers
     /\ llm_call.provider \in llm_call.failing
     /\ WorkingLater # {})
    => /\ llm_call.pc = "returned"
       /\ \E j \in WorkingLater :
            /\ \A i \in WorkingLater : j <= i
            /\ llm_call.result = ResultOf(llm_config.fallback_order[j])

(* a is b with some entries left out *)
IsSubseq(a, b) ==
    \E f \in [1..Len(a) -> 1..Len(b)] :
        /\ \A i \in 1..Len(a) : a[i] = b[f[i]]
        /\ \A i, j \in 1..Len(a) : i < j => f[i] < f[j]

(* the providers from the starting one to the end of fallback_order; the
   starting provider alone when fallback_order does not hold it *)
FromStart ==
    LET order == llm_config.fallback_order
        start == index(order, llm_call.provider)
    IN  IF start = 0 THEN <<llm_call.provider>>
        ELSE SubSeq(order, start, Len(order))

NoDuplicates(order) ==
    \A i, j \in 1..Len(order) : order[i] = order[j] => i = j

(* each provider at most once, in fallback_order from the starting provider
   on, and no more invocations than max_retries or the providers from the
   starting one to the end *)
OncePerProvider ==
    /\ \A p \in LLMProviders : Invocations(p) <= 1
    /\ IsSubseq(llm_call.invoked, FromStart)
    /\ Len(llm_call.invoked) <= Min2(llm_config.max_retries, Len(FromStart))

(* C30 as stated: for every configuration and every pattern of failures,
   each provider is invoked at most once within one call, providers are
   tried in fallback_order from the starting one and never backwards, and
   there are at most min(max_retries, providers from the starting one to the
   end of fallback_order) invocations. *)
C30_AsStated == llm_call.pc # "idle" => OncePerProvider

(* C30: every call of _execute_with_fallback ends by returning or raising
   after at most max_retries invocations of a provider; when fallback_order
   names no provider twice, each provider is invoked at most once, in
   fallback_order from the starting provider on and never backwards, and
   there are at most min(max_retries, providers from the starting one to the
   end of fallback_order) invocations. *)
C30_Terminates ==
    /\ [](llm_call.pc # "idle" =>
            /\ Len(llm_call.invoked) <= llm_config.max_retries
            /\ NoDuplicates(llm_config.fallback_order) => OncePerProvider)
    /\ (llm_call.pc = "loop") ~> LLMEnded

(* a call that fell back from one provider to the next and returned *)
C30_Witness ==
    /\ llm_call.pc = "returned"
    /\ llm_call.invoked = <<"groq", "llama">>
    /\ NoDuplicates(llm_config.fallback_order)
    /\ llm_config.max_retries = 2

----------------------------------------------------------------------------
(* Properties of the cache key and of concurrent calls (checked under
   SpecKey and SpecConc) *)

Begun(i) == tasks[i].pc # "idle"

(* the items of a filter, None being the empty filter *)
FilterItems(f) == IF f.t = "none" THEN {} ELSE f.items

(* calls i and j agree on query, top_k, alpha and filter_metadata *)
Agree(i, j) ==
    /\ tasks[i].query = tasks[j].query
    /\ tasks[i].top_k = tasks[j].top_k
    /\ tasks[i].alpha = tasks[j].alpha
    /\ FilterItems(tasks[i].filter_metadata)
            = FilterItems(tasks[j].filter_metadata)

(* every command that call i sent to Redis carries the key of line 35, and a
   call that stored looked up first *)
OneKeyPerCall(i) ==
    /\ \A n \in 1..Len(tasks[i].ops) :
          tasks[i].ops[n].key = tasks[i].cache_key
    /\ \A n \in 1..Len(tasks[i].ops) :
          tasks[i].ops[n].op = "SET" => n = 2 /\ tasks[i].ops[1].op = "GET"

(* C24: two calls that agree on (query, top_k, alpha, filter_metadata), key
   order ignored and None treated as the empty filter, use the same key, two
   calls that differ in any of the four use different keys, and one call
   uses the same key for the lookup and the store. *)
C24_KeyDeterminism ==
    /\ \A i, j \in DOMAIN tasks :
          (Begun(i) /\ Begun(j))
          => (tasks[i].cache_key = tasks[j].cache_key <=> Agree(i, j))
    /\ \A i \in DOMAIN tasks : OneKeyPerCall(i)

(* what call i returns when it runs alone on the responses it received *)
FusedOf(i) ==
    rank(fuse(tasks[i].alpha, tasks[i].bm25_results, tasks[i].vector_results),
         tasks[i].top_k)

(* call i missed the cache and has returned *)
Recomputed(i) == tasks[i].pc = "done" /\ ~tasks[i].hit

(* C25: in every interleaving of concurrent requests, a request that missed
   the cache returns the correctly fused list of the backend responses it
   received, and a request that hit returns the list that a request with the
   same arguments computed and stored. *)
C25_NoSingleFlight ==
    \A i \in DOMAIN tasks :
        tasks[i].pc = "done"
        => IF tasks[i].hit
           THEN \E j \in DOMAIN tasks \ {i} :
                    /\ Recomputed(j) /\ Agree(i, j)
                    /\ tasks[i].returned = ListValue(FusedOf(j))
           ELSE tasks[i].returned = ListValue(FusedOf(i))

(* two identical requests both missed, both called both backends (with
   different answers from the lexical one) and both wrote the entry *)
C25_Witness ==
    /\ Recomputed(1) /\ Recomputed(2) /\ Agree(1, 2)
    /\ cache_enabled(env)
    /\ Len(tasks[1].ops) = 2 /\ tasks[1].ops[2].op = "SET"
    /\ Len(tasks[2].ops) = 2 /\ tasks[2].ops[2].op = "SET"
    /\ tasks[1].bm25_results # tasks[2].bm25_results
    /\ tasks[1].vector_results # <<>>
    /\ tasks[1].returned # tasks[2].returned

(* C26: with caching disabled, each of the concurrent invocations returns
   the list it would return alone on the backend responses it received, and
   none reads or writes shared data: no command goes to Redis and Redis
   holds nothing. *)
C26_Isolation ==
    env.REDIS_CACHE_ENABLED = "false"
    => /\ cache = {}
       /\ \A i \in DOMAIN tasks :
            /\ tasks[i].ops = <<>>
            /\ ~tasks[i].hit
            /\ tasks[i].pc = "done"
               => tasks[i].returned = ListValue(FusedOf(i))

(* two invocations with the cache off that overlapped have returned
   different lists for the same arguments *)
C26_Witness ==
    /\ env.REDIS_CACHE_ENABLED = "false"
    /\ Recomputed(1) /\ Recomputed(2) /\ Agree(1, 2)
    /\ tasks[1].returned # tasks[2].returned
    /\ tasks[2].returned.items # <<>>

(* the next step of call j *)
TaskStep(j) ==
    \/ TaskCall(j)
    \/ TaskLookupReturn(j)
    \/ TaskBm25Return(j)
    \/ TaskVectorReturn(j)
    \/ TaskStoreReturn(j)

(* call j waits for nothing but the event loop: it has not begun, or the
   answer it awaits can be delivered *)
Ready(j) == tasks[j].pc \in {"idle", "lookup", "vector", "store"}

(* C27: while the lexical search of one request is in progress, the other
   requests on the same event loop can still make progress. *)
C27_NonBlockingLexical ==
    \A i, j \in DOMAIN tasks :
        (i # j /\ tasks[i].pc = "bm25" /\ Ready(j)) => ENABLED TaskStep(j)
====
